---------------------------- MODULE Spec2Model ----------------------------
(***************************************************************************)
(* A model of the t_query transit engine (src/7_nimick/t_query/src):       *)
(*   graph.rs  Graph (adjacency lists, Dijkstra) and LabeledGraph          *)
(*   t.rs      T (source data, disabled set, rebuild, find_path,           *)
(*             enable/disable, disambiguation) and the path interpreter    *)
(*   query.rs  the command loop that applies one command at a time         *)
(*   main.rs   serve_forever: a thread per connection, the T in a Mutex    *)
(*                                                                         *)
(* Conventions.  Node indices are the code's 0-based usize values; a       *)
(* vector v is a sequence, so the code's v[i] is v[i + 1] here.  A station *)
(* name is a sequence of character codes, so that substring containment    *)
(* and the lexicographic order of String are computed, not assumed.  A     *)
(* line name is a string (only compared for equality).  Option values are  *)
(* the records None and Some(v).                                           *)
(***************************************************************************)
EXTENDS Integers, Sequences, FiniteSets, TLC

VARIABLES
    \* ---- Graph under test (graph.rs, struct Graph) ----
    gedges,      \* Graph.edges: Vec<Vec<Edge>>
    gout,        \* what the last Graph call returned, NoCall when none is pending
    \* ---- T (t.rs, struct T) ----
    lineOrder,   \* iteration order of the source_data HashMap (fixed after load)
    connOrder,   \* iteration order of the connections HashSet (fixed after load)
    stations,    \* T.stations: station name -> Vec<Node>
    disabled,    \* T.disabled: set of station names
    graph,       \* T.graph: LabeledGraph [labels, indices, graph]
    out,         \* what the command loop last wrote, NoOutput at the prompt
    \* ---- LabeledGraph under test (graph.rs, struct LabeledGraph) ----
    lgraph,      \* the LabeledGraph: [labels, indices, graph]
    lgout,       \* what the last LabeledGraph call was and returned
    \* ---- interpret_path at work (t.rs) ----
    ipath,       \* path: Vec<Node>, the argument
    ik,          \* how many nodes of path the iterator has yielded
    isteps,      \* result_vec
    ipc,         \* "start", "loop" or "done"
    \* ---- Graph::find_shortest_path at work (graph.rs) ----
    dedges,      \* self.edges
    dsource,     \* source
    dtarget,     \* target
    dcost,       \* cost: Vec<(usize, Vec<usize>)>
    dqueue,      \* queue: BinaryHeap<State>, in push order
    dcur,        \* the State popped last
    dk,          \* how many edges of self.edges[position] the for loop has taken
    dpc,         \* "start", "source", "pop", "edges" or "done"
    dret,        \* the Option returned
    \* ---- the server (main.rs, query.rs) ----
    mutex,       \* whether the Mutex around the T is locked
    sess         \* client -> the state of its connection and of its query_user thread

vars == <<gedges, gout, lineOrder, connOrder, stations, disabled, graph, out,
          lgraph, lgout, ipath, ik, isteps, ipc,
          dedges, dsource, dtarget, dcost, dqueue, dcur, dk, dpc, dret,
          mutex, sess>>

gvars == <<gedges, gout>>
tvars == <<lineOrder, connOrder, stations, disabled, graph, out>>
lvars == <<lgraph, lgout>>
ivars == <<ipath, ik, isteps, ipc>>
dvars == <<dedges, dsource, dtarget, dcost, dqueue, dcur, dk, dpc, dret>>
svars == <<mutex, sess>>

----------------------------------------------------------------------------
(* Option<T> *)

None == [tag |-> "None"]
Some(v) == [tag |-> "Some", val |-> v]

\* no Graph call is pending
NoCall == [call |-> "none"]

(* Sequence helpers *)

RemoveAt(s, i) == SubSeq(s, 1, i - 1) \o SubSeq(s, i + 1, Len(s))

Range(s) == {s[i] : i \in 1..Len(s)}

----------------------------------------------------------------------------
(* graph.rs: Graph *)

\* stands for usize::MAX, the cost of a node not reached yet (graph.rs:76);
\* no path cost of the model comes near it
usize_MAX == 2147483647

\* Edge { node, cost }
Edge(node, cost) == [node |-> node, cost |-> cost]

\* State { cost, position, path }
State(cost, position, path) == [cost |-> cost, position |-> position, path |-> path]

\* Graph::new
Graph_new == <<>>

\* Graph::add_node: push an empty adjacency list; the index returned is len - 1
Graph_add_node(edges) == Append(edges, <<>>)

\* weight.unwrap_or(1)
unwrap_or(weight, default) == IF weight.tag = "Some" THEN weight.val ELSE default

\* the assertions of Graph::add_edge without the one on target.
Graph_add_edge_asserts_SourceOnly(edges, source, target) ==
    source < Len(edges)

\* the two assertions of Graph::add_edge
Graph_add_edge_asserts(edges, source, target) ==
    /\ source < Len(edges)
    /\ target < Len(edges)

\* Graph::add_edge that pushes the reverse entry for a directed edge too.
Graph_add_edge_BothWays(edges, source, target, weight, directed) ==
    LET w  == unwrap_or(weight, 1)
        e1 == [edges EXCEPT ![source + 1] = Append(@, Edge(target, w))]
    IN  [e1 EXCEPT ![target + 1] = Append(@, Edge(source, w))]

\* Graph::add_edge past its assertions
Graph_add_edge(edges, source, target, weight, directed) ==
    LET w  == unwrap_or(weight, 1)
        e1 == [edges EXCEPT ![source + 1] = Append(@, Edge(target, w))]
    IN  IF ~directed
        THEN [e1 EXCEPT ![target + 1] = Append(@, Edge(source, w))]
        ELSE e1

\* The element BinaryHeap::pop returns.  State's Ord compares the cost
\* alone, flipped, so the greatest element is one of least cost; which of
\* several equal-cost entries comes out is the heap's business.  The queue
\* is kept in push order and `tie` names the policy: the oldest or the
\* newest of the least-cost entries.
MinCostIndices(queue) ==
    {i \in 1..Len(queue) : \A j \in 1..Len(queue) : queue[i].cost <= queue[j].cost}

PopIndex(queue, tie) ==
    LET m == MinCostIndices(queue)
    IN  IF tie = "oldest"
        THEN CHOOSE i \in m : \A j \in m : i <= j
        ELSE CHOOSE i \in m : \A j \in m : i >= j

Ties == {"oldest", "newest"}

\* A relaxation that records a node only the first time it is reached and
\* never improves on it (the test new_cost < cost[node].0 replaced by a
\* visited test).
RECURSIVE RelaxEdges_FirstReached(_, _, _, _, _)
RelaxEdges_FirstReached(adj, k, cur, cost, queue) ==
    IF k > Len(adj)
    THEN [cost |-> cost, queue |-> queue]
    ELSE LET node     == adj[k].node
             new_cost == cur.cost + adj[k].cost
         IN  IF cost[node + 1].path = <<>>
             THEN LET path_vec == Append(cur.path, node)
                  IN  RelaxEdges_FirstReached(adj, k + 1, cur,
                          [cost EXCEPT ![node + 1] = [cost |-> new_cost, path |-> path_vec]],
                          Append(queue, State(new_cost, node, path_vec)))
             ELSE RelaxEdges_FirstReached(adj, k + 1, cur, cost, queue)

\* A relaxation that takes a way that is as good as the recorded one for a
\* better one (<= for <).
RECURSIVE RelaxEdges_NotWorse(_, _, _, _, _)
RelaxEdges_NotWorse(adj, k, cur, cost, queue) ==
    IF k > Len(adj)
    THEN [cost |-> cost, queue |-> queue]
    ELSE LET node     == adj[k].node
             new_cost == cur.cost + adj[k].cost
         IN  IF new_cost <= cost[node + 1].cost
             THEN LET path_vec == Append(cur.path, node)
                  IN  RelaxEdges_NotWorse(adj, k + 1, cur,
                          [cost EXCEPT ![node + 1] = [cost |-> new_cost, path |-> path_vec]],
                          Append(queue, State(new_cost, node, path_vec)))
             ELSE RelaxEdges_NotWorse(adj, k + 1, cur, cost, queue)

\* the inner for loop of find_shortest_path (graph.rs:93-102) from edge k on
RECURSIVE RelaxEdges(_, _, _, _, _)
RelaxEdges(adj, k, cur, cost, queue) ==
    IF k > Len(adj)
    THEN [cost |-> cost, queue |-> queue]
    ELSE LET node     == adj[k].node
             new_cost == cur.cost + adj[k].cost
         IN  IF new_cost < cost[node + 1].cost
             THEN LET path_vec == Append(cur.path, node)
                  IN  RelaxEdges(adj, k + 1, cur,
                          [cost EXCEPT ![node + 1] = [cost |-> new_cost, path |-> path_vec]],
                          Append(queue, State(new_cost, node, path_vec)))
             ELSE RelaxEdges(adj, k + 1, cur, cost, queue)

\* the while-let loop (graph.rs:86-103): pop, skip a stale entry, relax
RECURSIVE DijkstraLoop(_, _, _, _)
DijkstraLoop(edges, cost, queue, tie) ==
    IF queue = <<>>
    THEN cost
    ELSE LET i    == PopIndex(queue, tie)
             cur  == queue[i]
             rest == RemoveAt(queue, i)
         IN  IF cur.cost > cost[cur.position + 1].cost
             THEN DijkstraLoop(edges, cost, rest, tie)
             ELSE LET r == RelaxEdges(edges[cur.position + 1], 1, cur, cost, rest)
                  IN  DijkstraLoop(edges, r.cost, r.queue, tie)

\* find_shortest_path without line 79 (cost[source] = (0, vec![source])):
\* the source keeps the empty path of an unreached node.
Graph_find_shortest_path_NoSourceEntry(edges, source, target, tie) ==
    LET cost0 == [i \in 1..Len(edges) |-> [cost |-> usize_MAX, path |-> <<>>]]
        cost  == DijkstraLoop(edges, cost0, <<State(0, source, <<source>>)>>, tie)
        path_vec == cost[target + 1].path
    IN  IF path_vec = <<>> THEN None ELSE Some(path_vec)

\* Graph::find_shortest_path
Graph_find_shortest_path(edges, source, target, tie) ==
    LET cost0 == [i \in 1..Len(edges) |->
                    IF i = source + 1
                    THEN [cost |-> 0, path |-> <<source>>]
                    ELSE [cost |-> usize_MAX, path |-> <<>>]]
        cost  == DijkstraLoop(edges, cost0, <<State(0, source, <<source>>)>>, tie)
        path_vec == cost[target + 1].path
    IN  IF path_vec = <<>> THEN None ELSE Some(path_vec)

----------------------------------------------------------------------------
(* graph.rs: LabeledGraph *)

\* Node { station, line }
Node(station, line) == [station |-> station, line |-> line]

\* LabeledGraph::new
LabeledGraph_new == [labels |-> <<>>, indices |-> <<>>, graph |-> Graph_new]

\* add_node_if_not_exists without the early return for a known key: the
\* key gets a new node and a new index.
add_node_if_not_exists_Always(lg, key) ==
    LET index == Len(Graph_add_node(lg.graph)) - 1
    IN  [labels  |-> (key :> index) @@ lg.labels,
         indices |-> Append(lg.indices, key),
         graph   |-> Graph_add_node(lg.graph)]

\* LabeledGraph::add_node_if_not_exists
add_node_if_not_exists(lg, key) ==
    IF key \in DOMAIN lg.labels
    THEN lg
    ELSE LET index == Len(Graph_add_node(lg.graph)) - 1
         IN  [labels  |-> lg.labels @@ (key :> index),
              indices |-> Append(lg.indices, key),
              graph   |-> Graph_add_node(lg.graph)]

\* LabeledGraph::add_edge
LabeledGraph_add_edge(lg, source, target, weight, directed) ==
    LET lg1 == add_node_if_not_exists(lg, source)
        lg2 == add_node_if_not_exists(lg1, target)
        source_idx == lg2.labels[source]
        target_idx == lg2.labels[target]
    IN  [lg2 EXCEPT !.graph = Graph_add_edge(@, source_idx, target_idx, weight, directed)]

\* LabeledGraph::find_shortest_path that looks only the source label up
\* before the search: an unregistered target gives the path of the source
\* alone.
LabeledGraph_find_shortest_path_SourceOnly(lg, source, target, tie) ==
    IF source \notin DOMAIN lg.labels THEN None
    ELSE IF target \notin DOMAIN lg.labels THEN Some(<<source>>)
    ELSE LET result == Graph_find_shortest_path(lg.graph, lg.labels[source],
                                                lg.labels[target], tie)
         IN  IF result.tag = "Some"
             THEN Some([i \in 1..Len(result.val) |-> lg.indices[result.val[i] + 1]])
             ELSE None

\* LabeledGraph::find_shortest_path
LabeledGraph_find_shortest_path(lg, source, target, tie) ==
    IF source \notin DOMAIN lg.labels \/ target \notin DOMAIN lg.labels
    THEN None
    ELSE LET source_idx == lg.labels[source]
             target_idx == lg.labels[target]
             result == Graph_find_shortest_path(lg.graph, source_idx, target_idx, tie)
         IN  IF result.tag = "Some"
             THEN Some([i \in 1..Len(result.val) |-> lg.indices[result.val[i] + 1]])
             ELSE None

----------------------------------------------------------------------------
(* String: names are sequences of character codes *)

\* str::contains: needle occurs in hay as a contiguous run
contains(hay, needle) ==
    \E i \in 0..(Len(hay) - Len(needle)) : SubSeq(hay, i + 1, i + Len(needle)) = needle

\* the order of String (byte-wise lexicographic, a proper prefix first)
RECURSIVE StrLess(_, _)
StrLess(a, b) ==
    IF b = <<>> THEN FALSE
    ELSE IF a = <<>> THEN TRUE
    ELSE IF Head(a) # Head(b) THEN Head(a) < Head(b)
    ELSE StrLess(Tail(a), Tail(b))

\* Vec::sort on a vector of names
RECURSIVE SortInsert(_, _)
SortInsert(sorted, x) ==
    IF sorted = <<>> THEN <<x>>
    ELSE IF StrLess(x, Head(sorted)) THEN <<x>> \o sorted
    ELSE <<Head(sorted)>> \o SortInsert(Tail(sorted), x)

RECURSIVE sort(_)
sort(v) == IF v = <<>> THEN <<>> ELSE SortInsert(sort(Tail(v)), Head(v))

\* the elements of a set of names in some order: the order a HashMap or
\* HashSet iterator yields them in; `descending` picks one of two orders
RECURSIVE IterOrder(_, _)
IterOrder(set, descending) ==
    IF set = {} THEN <<>>
    ELSE LET x == IF descending
                  THEN CHOOSE y \in set : \A z \in set \ {y} : StrLess(z, y)
                  ELSE CHOOSE y \in set : \A z \in set \ {y} : StrLess(y, z)
         IN  <<x>> \o IterOrder(set \ {x}, descending)

----------------------------------------------------------------------------
(* t.rs: the data load() reads.  The data files are not part of the        *)
(* sources; this is a small network with the features the real one has:    *)
(* a trunk line, a second line crossing it at a transfer station, and two  *)
(* branch lines joined by connection rules, one of them with a fallback.   *)
(*                                                                         *)
(*   red:    Ab - T - b           orange:  Ac - T - E                      *)
(*   branch: E                    spur:    F                               *)
(*   connections: (branch, red), (spur, branch, fallback red)              *)
(*                                                                         *)
(* Character codes: 1 "A", 2 "b", 3 "c", 5 "T", 6 "E", 7 "F", 9 "x".       *)

StAb == <<1, 2>>
StAc == <<1, 3>>
StB  == <<2>>
StT  == <<5>>
StE  == <<6>>
StF  == <<7>>

\* T.source_data: line -> Vec<station name>
source_data ==
    [red    |-> <<StAb, StT, StB>>,
     orange |-> <<StAc, StT, StE>>,
     branch |-> <<StE>>,
     spur   |-> <<StF>>]

AllStations == UNION {Range(source_data[l]) : l \in DOMAIN source_data}

\* T.connections: (line one, line two, optional fallback line)
connections ==
    {<<"branch", "red", None>>, <<"spur", "branch", Some("red")>>}

\* the orders source_data.iter() may yield the lines in
LineOrders ==
    {<<"red", "orange", "branch", "spur">>, <<"spur", "branch", "orange", "red">>}

\* the orders connections.iter() may yield the rules in
ConnOrders ==
    {<<<<"branch", "red", None>>, <<"spur", "branch", Some("red")>>>>,
     <<<<"spur", "branch", Some("red")>>, <<"branch", "red", None>>>>}

\* the names a client types: full names, partial names, an unknown name
QueryNames == {<<1>>, <<2>>, <<3>>, <<1, 2>>, <<1, 3>>, <<5>>, <<6>>, <<7>>, <<9>>}

----------------------------------------------------------------------------
(* t.rs: T *)

TRANSFER_COST == Some(2)
NO_COST == Some(0)
START_NODE_LABEL == "start_node"
END_NODE_LABEL == "end_node"

\* TStep
Station(station, line) == [step |-> "Station", station |-> station, line |-> line]
Switch(from, to) == [step |-> "Switch", from |-> from, to |-> to]
Ensure(line) == [step |-> "Ensure", line |-> line]

\* DisambiguationResult
DisambiguationResult_Station(name) == [tag |-> "Station", val |-> name]
Suggestions(names) == [tag |-> "Suggestions", val |-> names]

\* TQueryResult
TOk(steps) == [tag |-> "TOk", val |-> steps]
DisambiguateStart(names) == [tag |-> "DisambiguateStart", val |-> names]
DisambiguateDestination(names) == [tag |-> "DisambiguateDestination", val |-> names]
NoSuchStart == [tag |-> "NoSuchStart"]
NoSuchDest == [tag |-> "NoSuchDest"]
DisabledStart(name) == [tag |-> "DisabledStart", val |-> name]
DisabledDest(name) == [tag |-> "DisabledDest", val |-> name]
NoSuchPath == [tag |-> "NoSuchPath"]

\* TOperationResult
Successful == [tag |-> "Successful"]
DisambiguateOp(names) == [tag |-> "DisambiguateOp", val |-> names]
NoSuchStationOp == [tag |-> "NoSuchStationOp"]

\* connect_existing that joins the nodes of a station at no cost.
RECURSIVE connect_existing_Free(_, _, _, _)
connect_existing_Free(node_vec, k, this_node, lg) ==
    IF k > Len(node_vec) THEN lg
    ELSE connect_existing_Free(node_vec, k + 1, this_node,
             LabeledGraph_add_edge(lg, node_vec[k], this_node, NO_COST, FALSE))

\* rebuild_lines, lines 210-212: for existing_node in node_vec
RECURSIVE connect_existing(_, _, _, _)
connect_existing(node_vec, k, this_node, lg) ==
    IF k > Len(node_vec) THEN lg
    ELSE connect_existing(node_vec, k + 1, this_node,
             LabeledGraph_add_edge(lg, node_vec[k], this_node, TRANSFER_COST, FALSE))

\* rebuild_line with prev_node dropped at a disabled station: the stations
\* on either side of it are not joined.
RECURSIVE rebuild_line_NoBypass(_, _, _, _, _, _, _)
rebuild_line_NoBypass(rail_line, station_vec, k, prev_node, st, lg, dis) ==
    IF k > Len(station_vec)
    THEN [stations |-> st, graph |-> lg]
    ELSE LET station_name == station_vec[k]
         IN  IF station_name \in dis
             THEN rebuild_line_NoBypass(rail_line, station_vec, k + 1, None, st, lg, dis)
             ELSE LET this_node == Node(station_name, rail_line)
                      st1 == IF station_name \in DOMAIN st
                             THEN st
                             ELSE st @@ (station_name :> <<>>)
                      node_vec == st1[station_name]
                      lg1 == connect_existing(node_vec, 1, this_node, lg)
                      st2 == [st1 EXCEPT ![station_name] = Append(@, this_node)]
                      lg2 == IF prev_node.tag = "Some"
                             THEN LabeledGraph_add_edge(lg1, prev_node.val, this_node, None, FALSE)
                             ELSE lg1
                  IN  rebuild_line_NoBypass(rail_line, station_vec, k + 1, Some(this_node),
                                            st2, lg2, dis)

\* rebuild_line without the check of lines 192-194: a disabled station is
\* built like an enabled one.
RECURSIVE rebuild_line_KeepDisabled(_, _, _, _, _, _, _)
rebuild_line_KeepDisabled(rail_line, station_vec, k, prev_node, st, lg, dis) ==
    IF k > Len(station_vec)
    THEN [stations |-> st, graph |-> lg]
    ELSE LET station_name == station_vec[k]
             this_node == Node(station_name, rail_line)
             st1 == IF station_name \in DOMAIN st
                    THEN st
                    ELSE st @@ (station_name :> <<>>)
             node_vec == st1[station_name]
             lg1 == connect_existing(node_vec, 1, this_node, lg)
             st2 == [st1 EXCEPT ![station_name] = Append(@, this_node)]
             lg2 == IF prev_node.tag = "Some"
                    THEN LabeledGraph_add_edge(lg1, prev_node.val, this_node, None, FALSE)
                    ELSE lg1
         IN  rebuild_line_KeepDisabled(rail_line, station_vec, k + 1, Some(this_node),
                                       st2, lg2, dis)

\* rebuild_lines, the inner loop over one line's station_vec from station k
\* on; st is self.stations, lg is self.graph, dis is self.disabled
RECURSIVE rebuild_line(_, _, _, _, _, _, _)
rebuild_line(rail_line, station_vec, k, prev_node, st, lg, dis) ==
    IF k > Len(station_vec)
    THEN [stations |-> st, graph |-> lg]
    ELSE LET station_name == station_vec[k]
         IN  IF station_name \in dis
             THEN rebuild_line(rail_line, station_vec, k + 1, prev_node, st, lg, dis)
             ELSE LET this_node == Node(station_name, rail_line)
                      st1 == IF station_name \in DOMAIN st
                             THEN st
                             ELSE st @@ (station_name :> <<>>)
                      node_vec == st1[station_name]
                      lg1 == connect_existing(node_vec, 1, this_node, lg)
                      st2 == [st1 EXCEPT ![station_name] = Append(@, this_node)]
                      lg2 == IF prev_node.tag = "Some"
                             THEN LabeledGraph_add_edge(lg1, prev_node.val, this_node, None, FALSE)
                             ELSE lg1
                  IN  rebuild_line(rail_line, station_vec, k + 1, Some(this_node), st2, lg2, dis)

\* T::rebuild_lines: the outer loop over source_data in iteration order
RECURSIVE rebuild_lines(_, _, _, _, _)
rebuild_lines(order, k, st, lg, dis) ==
    IF k > Len(order)
    THEN [stations |-> st, graph |-> lg]
    ELSE LET r == rebuild_line(order[k], source_data[order[k]], 1, None, st, lg, dis)
         IN  rebuild_lines(order, k + 1, r.stations, r.graph, dis)

\* line.iter().filter(not disabled).next()
RECURSIVE first_enabled(_, _, _)
first_enabled(line, k, dis) ==
    IF k > Len(line) THEN None
    ELSE IF line[k] \notin dis THEN Some(line[k])
    ELSE first_enabled(line, k + 1, dis)

\* line.iter().rev().filter(not disabled).next(); called with k = Len(line)
RECURSIVE last_enabled(_, _, _)
last_enabled(line, k, dis) ==
    IF k < 1 THEN None
    ELSE IF line[k] \notin dis THEN Some(line[k])
    ELSE last_enabled(line, k - 1, dis)

\* rebuild_connections, lines 274-281: every node of station one to every
\* node of station two; i and j are the positions of the two loops
RECURSIVE connect_all(_, _, _, _, _)
connect_all(node_vec_one, node_vec_two, i, j, lg) ==
    IF i > Len(node_vec_one) THEN lg
    ELSE IF j > Len(node_vec_two) THEN connect_all(node_vec_one, node_vec_two, i + 1, 1, lg)
    ELSE connect_all(node_vec_one, node_vec_two, i, j + 1,
             LabeledGraph_add_edge(lg, node_vec_one[i], node_vec_two[j], TRANSFER_COST, FALSE))

\* rebuild_connections, lines 243-266: the station of line two, or of the
\* fallback line; None where the code returns
station_two_of(rule, dis) ==
    LET line_two == source_data[rule[2]]
        s2 == last_enabled(line_two, Len(line_two), dis)
    IN  IF s2.tag = "Some" THEN s2
        ELSE IF rule[3].tag = "None" THEN None
        ELSE IF rule[3].val \notin DOMAIN source_data THEN None
        ELSE last_enabled(source_data[rule[3].val], Len(source_data[rule[3].val]), dis)

\* T::rebuild_connections from rule k of the iteration order on.  A rule
\* whose station is not found makes the function return (lines 238, 253,
\* 257, 263): the rules after it are not looked at.
RECURSIVE rebuild_connections(_, _, _, _, _)
rebuild_connections(order, k, st, lg, dis) ==
    IF k > Len(order) THEN lg
    ELSE LET rule == order[k]
             station_one == first_enabled(source_data[rule[1]], 1, dis)
         IN  IF station_one.tag = "None" THEN lg
             ELSE LET station_two == station_two_of(rule, dis)
                  IN  IF station_two.tag = "None" THEN lg
                      ELSE rebuild_connections(order, k + 1, st,
                               connect_all(st[station_one.val], st[station_two.val], 1, 1, lg),
                               dis)

\* connect_unbiased with undirected edges: the start node and the end node
\* can be entered and left like any node.
RECURSIVE connect_unbiased_Undirected(_, _, _, _, _)
connect_unbiased_Undirected(node_vec, k, start_node, end_node, lg) ==
    IF k > Len(node_vec) THEN lg
    ELSE connect_unbiased_Undirected(node_vec, k + 1, start_node, end_node,
             LabeledGraph_add_edge(
                 LabeledGraph_add_edge(lg, start_node, node_vec[k], NO_COST, FALSE),
                 node_vec[k], end_node, NO_COST, FALSE))

\* add_unbiased_nodes, lines 299-302: for node in node_vec
RECURSIVE connect_unbiased(_, _, _, _, _)
connect_unbiased(node_vec, k, start_node, end_node, lg) ==
    IF k > Len(node_vec) THEN lg
    ELSE connect_unbiased(node_vec, k + 1, start_node, end_node,
             LabeledGraph_add_edge(
                 LabeledGraph_add_edge(lg, start_node, node_vec[k], NO_COST, TRUE),
                 node_vec[k], end_node, NO_COST, TRUE))

\* T::add_unbiased_nodes; order is the order stations.iter_mut() yields
RECURSIVE add_unbiased_nodes(_, _, _, _)
add_unbiased_nodes(order, k, st, lg) ==
    IF k > Len(order)
    THEN [stations |-> st, graph |-> lg]
    ELSE LET station == order[k]
             node_vec == st[station]
         IN  IF Len(node_vec) > 1
             THEN LET start_node == Node(station, START_NODE_LABEL)
                      end_node   == Node(station, END_NODE_LABEL)
                  IN  add_unbiased_nodes(order, k + 1,
                          [st EXCEPT ![station] = Append(Append(@, start_node), end_node)],
                          connect_unbiased(node_vec, 1, start_node, end_node, lg))
             ELSE add_unbiased_nodes(order, k + 1, st, lg)

\* rebuild_graph that builds every line in full, whatever is disabled.
rebuild_graph_IgnoreDisabled(lorder, corder, dis, descending) ==
    LET r1  == rebuild_lines(lorder, 1, <<>>, LabeledGraph_new, {})
        lg2 == rebuild_connections(corder, 1, r1.stations, r1.graph, {})
    IN  add_unbiased_nodes(IterOrder(DOMAIN r1.stations, descending), 1, r1.stations, lg2)

\* T::rebuild_graph.  stations is a fresh HashMap on every rebuild, so the
\* order its iterator yields is chosen anew each time (descending or not).
rebuild_graph(lorder, corder, dis, descending) ==
    LET r1  == rebuild_lines(lorder, 1, <<>>, LabeledGraph_new, dis)
        lg2 == rebuild_connections(corder, 1, r1.stations, r1.graph, dis)
    IN  add_unbiased_nodes(IterOrder(DOMAIN r1.stations, descending), 1, r1.stations, lg2)

\* disambiguate_station without .chain(self.disabled.iter()): only the
\* enabled stations are searched.
disambiguate_station_EnabledOnly(st, dis, station) ==
    LET ret_vec == IterOrder({m \in DOMAIN st : contains(m, station)}, FALSE)
    IN  IF Len(ret_vec) = 1
        THEN DisambiguationResult_Station(ret_vec[1])
        ELSE Suggestions(sort(ret_vec))

\* T::disambiguate_station.  ret_vec is filled from stations.keys() chained
\* with disabled; a name in both would be pushed twice.
disambiguate_station(st, dis, station) ==
    LET ret_vec == IterOrder({m \in DOMAIN st : contains(m, station)}, FALSE)
                   \o IterOrder({m \in dis : contains(m, station)}, FALSE)
    IN  IF Len(ret_vec) = 1
        THEN DisambiguationResult_Station(ret_vec[1])
        ELSE Suggestions(sort(ret_vec))

\* process_nodes without the Ensure step before a ride on another line.
process_nodes_NoEnsure(steps, prev_node, node) ==
    IF prev_node.line # node.line /\ prev_node.station = node.station
    THEN Append(steps, Switch(prev_node.line, node.line))
    ELSE Append(steps, Station(node.station, node.line))

\* process_nodes: the steps pushed for the transition prev_node -> node
process_nodes(steps, prev_node, node) ==
    IF prev_node.line # node.line /\ prev_node.station # node.station
    THEN Append(Append(steps, Ensure(node.line)), Station(node.station, node.line))
    ELSE IF prev_node.line # node.line
    THEN Append(steps, Switch(prev_node.line, node.line))
    ELSE Append(steps, Station(node.station, node.line))

\* process_first_nodes that names prev_node's line at a shared station.
process_first_nodes_PrevLine(steps, prev_node, node) ==
    IF prev_node.station = node.station
    THEN Append(steps, Station(prev_node.station, prev_node.line))
    ELSE process_nodes(Append(steps, Station(prev_node.station, prev_node.line)),
                       prev_node, node)

\* process_first_nodes without the ride at prev_node's station.
process_first_nodes_NoFirstRide(steps, prev_node, node) ==
    IF prev_node.station = node.station
    THEN Append(steps, Station(node.station, node.line))
    ELSE process_nodes(steps, prev_node, node)

\* process_first_nodes
process_first_nodes(steps, prev_node, node) ==
    IF prev_node.station = node.station
    THEN Append(steps, Station(node.station, node.line))
    ELSE process_nodes(Append(steps, Station(prev_node.station, prev_node.line)),
                       prev_node, node)

\* prune_end that pushes back whatever it popped.
prune_end_KeepLast(steps) == steps

\* prune_end: pop the last step, push it back only if it is a Station
prune_end(steps) ==
    LET last == steps[Len(steps)]
        rest == SubSeq(steps, 1, Len(steps) - 1)
    IN  IF last.step = "Station" THEN Append(rest, last) ELSE rest

\* interpret_path, lines 572-575: the loop over the nodes from position k on
RECURSIVE interpret_rest(_, _, _, _)
interpret_rest(path, k, prev_node, result_vec) ==
    IF k > Len(path) THEN result_vec
    ELSE interpret_rest(path, k + 1, path[k], process_nodes(result_vec, prev_node, path[k]))

\* interpret_path without the call of prune_end.
interpret_path_NoPrune(path) ==
    IF Len(path) = 1 THEN <<>>
    ELSE LET first_node == path[1]
             prev_node  == path[2]
             result_vec == process_first_nodes(<<>>, first_node, prev_node)
         IN  interpret_rest(path, 3, prev_node, result_vec)

\* interpret_path (path.len() > 0 is asserted; find_shortest_path never
\* yields Some of an empty path)
interpret_path(path) ==
    IF Len(path) = 1 THEN <<>>
    ELSE LET first_node == path[1]
             prev_node  == path[2]
             result_vec == process_first_nodes(<<>>, first_node, prev_node)
         IN  prune_end(interpret_rest(path, 3, prev_node, result_vec))

\* find_path that looks the start up in stations before it disambiguates
\* the destination.
find_path_DisabledFirst(st, dis, lg, start, dest, tie) ==
    LET ds == disambiguate_station(st, dis, start)
        dd == disambiguate_station(st, dis, dest)
    IN  IF ds.tag = "Suggestions"
        THEN (IF ds.val = <<>> THEN NoSuchStart ELSE DisambiguateStart(ds.val))
        ELSE IF ds.val \notin DOMAIN st THEN DisabledStart(ds.val)
        ELSE IF dd.tag = "Suggestions"
        THEN (IF dd.val = <<>> THEN NoSuchDest ELSE DisambiguateDestination(dd.val))
        ELSE IF dd.val \notin DOMAIN st THEN DisabledDest(dd.val)
        ELSE LET vs == st[ds.val]
                 vd == st[dd.val]
                 start_node == IF Len(vs) = 1 THEN vs[1] ELSE vs[Len(vs) - 1]
                 dest_node  == IF Len(vd) = 1 THEN vd[1] ELSE vd[Len(vd)]
                 path == LabeledGraph_find_shortest_path(lg, start_node, dest_node, tie)
             IN  IF path.tag = "Some" THEN TOk(interpret_path(path.val)) ELSE NoSuchPath

\* T::find_path
find_path(st, dis, lg, start, dest, tie) ==
    LET ds == disambiguate_station(st, dis, start)
        dd == disambiguate_station(st, dis, dest)
    IN  IF ds.tag = "Suggestions"
        THEN (IF ds.val = <<>> THEN NoSuchStart ELSE DisambiguateStart(ds.val))
        ELSE IF dd.tag = "Suggestions"
        THEN (IF dd.val = <<>> THEN NoSuchDest ELSE DisambiguateDestination(dd.val))
        ELSE IF ds.val \notin DOMAIN st THEN DisabledStart(ds.val)
        ELSE IF dd.val \notin DOMAIN st THEN DisabledDest(dd.val)
        ELSE LET vs == st[ds.val]
                 vd == st[dd.val]
                 start_node == IF Len(vs) = 1 THEN vs[1] ELSE vs[Len(vs) - 1]
                 dest_node  == IF Len(vd) = 1 THEN vd[1] ELSE vd[Len(vd)]
                 path == LabeledGraph_find_shortest_path(lg, start_node, dest_node, tie)
             IN  IF path.tag = "Some" THEN TOk(interpret_path(path.val)) ELSE NoSuchPath

\* modify_station without the call of rebuild_graph (line 352).
modify_station_NoRebuild(lorder, corder, st, dis, lg, station, enable, descending) ==
    LET d == disambiguate_station(st, dis, station)
        same == [stations |-> st, disabled |-> dis, graph |-> lg]
    IN  IF d.tag = "Suggestions"
        THEN same @@ [ret |-> IF d.val = <<>> THEN NoSuchStationOp ELSE DisambiguateOp(d.val)]
        ELSE IF enable # (d.val \in dis)
        THEN same @@ [ret |-> Successful]
        ELSE LET dis1 == IF enable THEN dis \ {d.val} ELSE dis \cup {d.val}
             IN  [stations |-> st, disabled |-> dis1, graph |-> lg, ret |-> Successful]

\* modify_station without the early return of lines 344-346: it rebuilds
\* also when the station is already in the state asked for.
modify_station_AlwaysRebuild(lorder, corder, st, dis, lg, station, enable, descending) ==
    LET d == disambiguate_station(st, dis, station)
        same == [stations |-> st, disabled |-> dis, graph |-> lg]
    IN  IF d.tag = "Suggestions"
        THEN same @@ [ret |-> IF d.val = <<>> THEN NoSuchStationOp ELSE DisambiguateOp(d.val)]
        ELSE LET dis1 == IF enable THEN dis \ {d.val} ELSE dis \cup {d.val}
                 r == rebuild_graph(lorder, corder, dis1, descending)
             IN  [stations |-> r.stations, disabled |-> dis1, graph |-> r.graph,
                  ret |-> Successful]

\* modify_station that acts on the first suggestion when the name matches
\* several stations.
modify_station_FirstMatch(lorder, corder, st, dis, lg, station, enable, descending) ==
    LET d == disambiguate_station(st, dis, station)
        same == [stations |-> st, disabled |-> dis, graph |-> lg]
    IN  IF d.tag = "Suggestions" /\ d.val = <<>>
        THEN same @@ [ret |-> NoSuchStationOp]
        ELSE LET name == IF d.tag = "Suggestions" THEN d.val[1] ELSE d.val
             IN  IF enable # (name \in dis)
                 THEN same @@ [ret |-> Successful]
                 ELSE LET dis1 == IF enable THEN dis \ {name} ELSE dis \cup {name}
                          r == rebuild_graph(lorder, corder, dis1, descending)
                      IN  [stations |-> r.stations, disabled |-> dis1, graph |-> r.graph,
                           ret |-> Successful]

\* modify_station that rebuilds before it changes disabled: the graph is
\* that of the disabled set before the call.
modify_station_StaleRebuild(lorder, corder, st, dis, lg, station, enable, descending) ==
    LET d == disambiguate_station(st, dis, station)
        same == [stations |-> st, disabled |-> dis, graph |-> lg]
    IN  IF d.tag = "Suggestions"
        THEN same @@ [ret |-> IF d.val = <<>> THEN NoSuchStationOp ELSE DisambiguateOp(d.val)]
        ELSE IF enable # (d.val \in dis)
        THEN same @@ [ret |-> Successful]
        ELSE LET dis1 == IF enable THEN dis \ {d.val} ELSE dis \cup {d.val}
                 r == rebuild_graph(lorder, corder, dis, descending)
             IN  [stations |-> r.stations, disabled |-> dis1, graph |-> r.graph,
                  ret |-> Successful]

\* modify_station whose enable rebuilds the station but leaves its name in
\* disabled.
modify_station_StillDisabled(lorder, corder, st, dis, lg, station, enable, descending) ==
    LET d == disambiguate_station(st, dis, station)
        same == [stations |-> st, disabled |-> dis, graph |-> lg]
    IN  IF d.tag = "Suggestions"
        THEN same @@ [ret |-> IF d.val = <<>> THEN NoSuchStationOp ELSE DisambiguateOp(d.val)]
        ELSE IF enable # (d.val \in dis)
        THEN same @@ [ret |-> Successful]
        ELSE LET dis1 == IF enable THEN dis \ {d.val} ELSE dis \cup {d.val}
                 r == rebuild_graph(lorder, corder, dis1, descending)
             IN  [stations |-> r.stations, disabled |-> dis \cup {d.val},
                  graph |-> r.graph, ret |-> Successful]

\* T::modify_station: the new disabled, stations and graph, and the result
modify_station(lorder, corder, st, dis, lg, station, enable, descending) ==
    LET d == disambiguate_station(st, dis, station)
        same == [stations |-> st, disabled |-> dis, graph |-> lg]
    IN  IF d.tag = "Suggestions"
        THEN same @@ [ret |-> IF d.val = <<>> THEN NoSuchStationOp ELSE DisambiguateOp(d.val)]
        ELSE IF enable # (d.val \in dis)
        THEN same @@ [ret |-> Successful]
        ELSE LET dis1 == IF enable THEN dis \ {d.val} ELSE dis \cup {d.val}
                 r == rebuild_graph(lorder, corder, dis1, descending)
             IN  [stations |-> r.stations, disabled |-> dis1, graph |-> r.graph,
                  ret |-> Successful]

\* T::enable_station, T::disable_station
enable_station(lorder, corder, st, dis, lg, station, descending) ==
    modify_station(lorder, corder, st, dis, lg, station, TRUE, descending)

disable_station(lorder, corder, st, dis, lg, station, descending) ==
    modify_station(lorder, corder, st, dis, lg, station, FALSE, descending)

----------------------------------------------------------------------------
(* main.rs, query.rs: load, then the command loop of one session.  Each    *)
(* command runs to its end and its result is written before the next       *)
(* prompt.                                                                 *)

NoOutput == [cmd |-> "none"]

\* T::new and T::load
Init ==
    /\ gedges = Graph_new
    /\ gout = NoCall
    /\ lineOrder \in LineOrders
    /\ connOrder \in ConnOrders
    /\ disabled = {}
    /\ \E descending \in BOOLEAN :
          \E r \in {rebuild_graph(lineOrder, connOrder, {}, descending)} :
              stations = r.stations /\ graph = r.graph
    /\ out = NoOutput
    /\ lgraph = <<>>
    /\ lgout = NoCall
    /\ ipath = <<>>
    /\ ik = 0
    /\ isteps = <<>>
    /\ ipc = "done"
    /\ dedges = <<>>
    /\ dsource = 0
    /\ dtarget = 0
    /\ dcost = <<>>
    /\ dqueue = <<>>
    /\ dcur = <<>>
    /\ dk = 0
    /\ dpc = "done"
    /\ dret = <<>>
    /\ mutex = FALSE
    /\ sess = <<>>

\* query_user, From(from, to)
FindPath ==
    /\ out = NoOutput
    /\ \E from \in QueryNames, to \in QueryNames, tie \in Ties :
          out' = [cmd |-> "from", from |-> from, to |-> to,
                  ret |-> find_path(stations, disabled, graph, from, to, tie)]
    /\ UNCHANGED <<gvars, lvars, ivars, lineOrder, connOrder, stations, disabled, graph, dvars, svars>>

\* query_user, Disable(station)
DisableStation ==
    /\ out = NoOutput
    /\ \E station \in QueryNames, descending \in BOOLEAN :
          \E r \in {disable_station(lineOrder, connOrder, stations, disabled, graph,
                                     station, descending)} :
              /\ stations' = r.stations
              /\ disabled' = r.disabled
              /\ graph' = r.graph
              /\ out' = [cmd |-> "disable", station |-> station, ret |-> r.ret]
    /\ UNCHANGED <<gvars, lvars, ivars, lineOrder, connOrder, dvars, svars>>

\* query_user, Enable(station)
EnableStation ==
    /\ out = NoOutput
    /\ \E station \in QueryNames, descending \in BOOLEAN :
          \E r \in {enable_station(lineOrder, connOrder, stations, disabled, graph,
                                    station, descending)} :
              /\ stations' = r.stations
              /\ disabled' = r.disabled
              /\ graph' = r.graph
              /\ out' = [cmd |-> "enable", station |-> station, ret |-> r.ret]
    /\ UNCHANGED <<gvars, lvars, ivars, lineOrder, connOrder, dvars, svars>>

\* query_user, lines 124-126: the result is written, the next line is read
Prompt ==
    /\ out # NoOutput
    /\ out' = NoOutput
    /\ UNCHANGED <<gvars, lvars, ivars, lineOrder, connOrder, stations, disabled, graph, dvars, svars>>

Next == FindPath \/ DisableStation \/ EnableStation \/ Prompt

Spec == Init /\ [][Next]_vars

----------------------------------------------------------------------------
(* The Graph under test: nodes and edges are added, then paths are asked for *)

MaxNodes == 3
MaxEdges == 3

\* the weights add_edge is called with: absent (cost 1), Some(0), Some(4)
Weights == {None, Some(0), Some(4)}

EdgeCount(edges) ==
    LET RECURSIVE Sum(_)
        Sum(i) == IF i = 0 THEN 0 ELSE Len(edges[i]) + Sum(i - 1)
    IN  Sum(Len(edges))

GInit ==
    /\ gedges = Graph_new
    /\ gout = NoCall
    /\ lineOrder = <<>>
    /\ connOrder = <<>>
    /\ stations = <<>>
    /\ disabled = {}
    /\ graph = <<>>
    /\ out = <<>>
    /\ lgraph = <<>>
    /\ lgout = NoCall
    /\ ipath = <<>>
    /\ ik = 0
    /\ isteps = <<>>
    /\ ipc = "done"
    /\ dedges = <<>>
    /\ dsource = 0
    /\ dtarget = 0
    /\ dcost = <<>>
    /\ dqueue = <<>>
    /\ dcur = <<>>
    /\ dk = 0
    /\ dpc = "done"
    /\ dret = <<>>
    /\ mutex = FALSE
    /\ sess = <<>>

GAddNode ==
    /\ gout = NoCall
    /\ Len(gedges) < MaxNodes
    /\ gedges' = Graph_add_node(gedges)
    /\ UNCHANGED <<gout, tvars, lvars, ivars, dvars, svars>>

\* Graph::add_edge with indices up to the node count, one past the last
\* node.  A failed assertion panics before anything is pushed.
GAddEdge ==
    /\ gout = NoCall
    /\ EdgeCount(gedges) < MaxEdges
    /\ \E source \in 0..Len(gedges), target \in 0..Len(gedges),
          weight \in Weights, directed \in BOOLEAN :
          LET call == [call |-> "add_edge", source |-> source, target |-> target,
                       weight |-> weight, directed |-> directed]
          IN  IF Graph_add_edge_asserts(gedges, source, target)
              THEN /\ gedges' = Graph_add_edge(gedges, source, target, weight, directed)
                   /\ gout' = call @@ [panicked |-> FALSE]
              ELSE /\ gedges' = gedges
                   /\ gout' = call @@ [panicked |-> TRUE]
    /\ UNCHANGED <<tvars, lvars, ivars, dvars, svars>>

GFindShortestPath ==
    /\ gout = NoCall
    /\ \E source \in 0..(Len(gedges) - 1), target \in 0..(Len(gedges) - 1), tie \in Ties :
          gout' = [call |-> "find_shortest_path", source |-> source, target |-> target,
                   ret |-> Graph_find_shortest_path(gedges, source, target, tie)]
    /\ UNCHANGED <<gedges, tvars, lvars, ivars, dvars, svars>>

\* the call has returned; after a panic the graph is used no more
GReturn ==
    /\ gout # NoCall
    /\ ~(gout.call = "add_edge" /\ gout.panicked)
    /\ gout' = NoCall
    /\ UNCHANGED <<gedges, tvars, lvars, ivars, dvars, svars>>

GNext == GAddNode \/ GAddEdge \/ GFindShortestPath \/ GReturn

GraphSpec == GInit /\ [][GNext]_vars

----------------------------------------------------------------------------
(* The LabeledGraph under test: edges between labels are added, then paths *)
(* between labels are asked for.                                           *)

\* the weights the calls are made with: absent (cost 1) and NO_COST
LWeights == {None, NO_COST}

\* the labels the calls are made with
LLabels == {Node(StT, "red"), Node(StT, "orange"), Node(StE, "orange")}

LInit ==
    /\ gedges = Graph_new
    /\ gout = NoCall
    /\ lineOrder = <<>>
    /\ connOrder = <<>>
    /\ stations = <<>>
    /\ disabled = {}
    /\ graph = <<>>
    /\ out = <<>>
    /\ lgraph = LabeledGraph_new
    /\ lgout = NoCall
    /\ ipath = <<>>
    /\ ik = 0
    /\ isteps = <<>>
    /\ ipc = "done"
    /\ dedges = <<>>
    /\ dsource = 0
    /\ dtarget = 0
    /\ dcost = <<>>
    /\ dqueue = <<>>
    /\ dcur = <<>>
    /\ dk = 0
    /\ dpc = "done"
    /\ dret = <<>>
    /\ mutex = FALSE
    /\ sess = <<>>

LAddEdge ==
    /\ lgout = NoCall
    /\ EdgeCount(lgraph.graph) < MaxEdges
    /\ \E source \in LLabels, target \in LLabels, weight \in LWeights, directed \in BOOLEAN :
          /\ lgraph' = LabeledGraph_add_edge(lgraph, source, target, weight, directed)
          /\ lgout' = [call |-> "add_edge", source |-> source, target |-> target,
                       weight |-> weight, directed |-> directed]
    /\ UNCHANGED <<gvars, tvars, ivars, dvars, svars>>

LFindShortestPath ==
    /\ lgout = NoCall
    /\ \E source \in LLabels, target \in LLabels, tie \in Ties :
          lgout' = [call |-> "find_shortest_path", source |-> source, target |-> target,
                    tie |-> tie,
                    ret |-> LabeledGraph_find_shortest_path(lgraph, source, target, tie)]
    /\ UNCHANGED <<gvars, tvars, ivars, lgraph, dvars, svars>>

LReturn ==
    /\ lgout # NoCall
    /\ lgout' = NoCall
    /\ UNCHANGED <<gvars, tvars, ivars, lgraph, dvars, svars>>

LNext == LAddEdge \/ LFindShortestPath \/ LReturn

LabeledGraphSpec == LInit /\ [][LNext]_vars

----------------------------------------------------------------------------
(* interpret_path at work on a path of nodes, one call of its helpers at a *)
(* time.  The paths are all sequences of nodes of two stations and three   *)
(* line labels, whether or not a graph search could return them.           *)

MaxPathLen == 3

\* the nodes the paths are made of
INodes == {Node(s, l) : s \in {StT, StE}, l \in {"red", "orange", START_NODE_LABEL}}

\* path.len() > 0 is asserted (line 562)
IPaths == UNION {[1..n -> INodes] : n \in 1..MaxPathLen}

IInit ==
    /\ gedges = Graph_new
    /\ gout = NoCall
    /\ lineOrder = <<>>
    /\ connOrder = <<>>
    /\ stations = <<>>
    /\ disabled = {}
    /\ graph = <<>>
    /\ out = <<>>
    /\ lgraph = <<>>
    /\ lgout = NoCall
    /\ ipath \in IPaths
    /\ ik = 0
    /\ isteps = <<>>
    /\ ipc = "start"
    /\ dedges = <<>>
    /\ dsource = 0
    /\ dtarget = 0
    /\ dcost = <<>>
    /\ dqueue = <<>>
    /\ dcur = <<>>
    /\ dk = 0
    /\ dpc = "done"
    /\ dret = <<>>
    /\ mutex = FALSE
    /\ sess = <<>>

\* interpret_path, lines 563-565: a path of one node gives no steps
IReturnEmpty ==
    /\ ipc = "start"
    /\ Len(ipath) = 1
    /\ isteps' = <<>>
    /\ ipc' = "done"
    /\ UNCHANGED <<gvars, tvars, lvars, ipath, ik, dvars, svars>>

\* interpret_path, lines 567-571: the first two nodes go to process_first_nodes
IProcessFirst ==
    /\ ipc = "start"
    /\ Len(ipath) > 1
    /\ isteps' = process_first_nodes(<<>>, ipath[1], ipath[2])
    /\ ik' = 2
    /\ ipc' = "loop"
    /\ UNCHANGED <<gvars, tvars, lvars, ipath, dvars, svars>>

\* interpret_path, lines 572-575: one turn of the loop; prev_node is ipath[ik]
IProcessNodes ==
    /\ ipc = "loop"
    /\ ik < Len(ipath)
    /\ isteps' = process_nodes(isteps, ipath[ik], ipath[ik + 1])
    /\ ik' = ik + 1
    /\ UNCHANGED <<gvars, tvars, lvars, ipath, ipc, dvars, svars>>

\* interpret_path, lines 576-577: prune_end, then the result is returned
IPruneEnd ==
    /\ ipc = "loop"
    /\ ik = Len(ipath)
    /\ isteps' = prune_end(isteps)
    /\ ipc' = "done"
    /\ UNCHANGED <<gvars, tvars, lvars, ipath, ik, dvars, svars>>

INext == IReturnEmpty \/ IProcessFirst \/ IProcessNodes \/ IPruneEnd

InterpretSpec == IInit /\ [][INext]_vars

\* the run above ends with what the operator interpret_path gives
IRunIsInterpretPath == ipc = "done" => isteps = interpret_path(ipath)

----------------------------------------------------------------------------
(* Graph::find_shortest_path at work, one statement group at a time, on     *)
(* every graph of SearchNodes nodes and up to SearchEdges directed edges.   *)
(* The thread that runs the search keeps running, so the specification      *)
(* states weak fairness of its steps.                                       *)

SearchNodes == 3
SearchEdges == 3

\* the weights the edges are added with: absent (cost 1) and Some(0)
SearchWeights == {None, Some(0)}

\* the add_edge calls that build a graph
EdgeCalls ==
    [source : 0..(SearchNodes - 1), target : 0..(SearchNodes - 1), weight : SearchWeights]

\* the graph after the calls from position k on
RECURSIVE AddEdges(_, _, _)
AddEdges(edges, calls, k) ==
    IF k > Len(calls) THEN edges
    ELSE AddEdges(Graph_add_edge(edges, calls[k].source, calls[k].target,
                                 calls[k].weight, TRUE),
                  calls, k + 1)

\* the graphs of n nodes that up to SearchEdges calls of add_edge build
SearchGraphs(n) ==
    {AddEdges([i \in 1..n |-> <<>>], calls, 1) :
        calls \in UNION {[1..m -> EdgeCalls] : m \in 0..SearchEdges}}

DInit ==
    /\ gedges = Graph_new
    /\ gout = NoCall
    /\ lineOrder = <<>>
    /\ connOrder = <<>>
    /\ stations = <<>>
    /\ disabled = {}
    /\ graph = <<>>
    /\ out = <<>>
    /\ lgraph = <<>>
    /\ lgout = NoCall
    /\ ipath = <<>>
    /\ ik = 0
    /\ isteps = <<>>
    /\ ipc = "done"
    /\ dedges \in SearchGraphs(SearchNodes)
    /\ dsource \in 0..(SearchNodes - 1)
    /\ dtarget \in 0..(SearchNodes - 1)
    /\ dcost = <<>>
    /\ dqueue = <<>>
    /\ dcur = <<>>
    /\ dk = 0
    /\ dpc = "start"
    /\ dret = <<>>
    /\ mutex = FALSE
    /\ sess = <<>>

\* lines 75-76: every node at usize::MAX with an empty path
DStart ==
    /\ dpc = "start"
    /\ dcost' = [i \in 1..Len(dedges) |-> [cost |-> usize_MAX, path |-> <<>>]]
    /\ dpc' = "source"
    /\ UNCHANGED <<gvars, tvars, lvars, ivars, svars,
                   dedges, dsource, dtarget, dqueue, dcur, dk, dret>>

\* lines 79-83: the source at cost 0, and its State pushed
DSource ==
    /\ dpc = "source"
    /\ dcost' = [dcost EXCEPT ![dsource + 1] = [cost |-> 0, path |-> <<dsource>>]]
    /\ dqueue' = <<State(0, dsource, <<dsource>>)>>
    /\ dpc' = "pop"
    /\ UNCHANGED <<gvars, tvars, lvars, ivars, svars,
                   dedges, dsource, dtarget, dcur, dk, dret>>

\* lines 86-88: queue.pop() yields a State; a stale one is skipped
DPop ==
    /\ dpc = "pop"
    /\ dqueue # <<>>
    /\ \E tie \in Ties :
          LET i == PopIndex(dqueue, tie)
          IN  /\ dcur' = dqueue[i]
              /\ dqueue' = RemoveAt(dqueue, i)
              /\ dpc' = IF dqueue[i].cost > dcost[dqueue[i].position + 1].cost
                        THEN "pop" ELSE "edges"
    /\ dk' = 0
    /\ UNCHANGED <<gvars, tvars, lvars, ivars, svars,
                   dedges, dsource, dtarget, dcost, dret>>

\* lines 93-101: the body of the for loop for the next edge
DEdge ==
    /\ dpc = "edges"
    /\ dk < Len(dedges[dcur.position + 1])
    /\ LET r == RelaxEdges(<<dedges[dcur.position + 1][dk + 1]>>, 1, dcur, dcost, dqueue)
       IN  dcost' = r.cost /\ dqueue' = r.queue
    /\ dk' = dk + 1
    /\ UNCHANGED <<gvars, tvars, lvars, ivars, svars,
                   dedges, dsource, dtarget, dcur, dpc, dret>>

\* line 93: the edges of the position are used up, back to queue.pop()
DEdgesDone ==
    /\ dpc = "edges"
    /\ dk = Len(dedges[dcur.position + 1])
    /\ dpc' = "pop"
    /\ UNCHANGED <<gvars, tvars, lvars, ivars, svars,
                   dedges, dsource, dtarget, dcost, dqueue, dcur, dk, dret>>

\* lines 86, 105-110: queue.pop() yields None, the path of target is returned
DReturn ==
    /\ dpc = "pop"
    /\ dqueue = <<>>
    /\ dret' = IF dcost[dtarget + 1].path = <<>> THEN None ELSE Some(dcost[dtarget + 1].path)
    /\ dpc' = "done"
    /\ UNCHANGED <<gvars, tvars, lvars, ivars, svars,
                   dedges, dsource, dtarget, dcost, dqueue, dcur, dk>>

DNext == DStart \/ DSource \/ DPop \/ DEdge \/ DEdgesDone \/ DReturn

DijkstraSpec == DInit /\ [][DNext]_vars /\ WF_vars(DNext)

\* the run returns None when Graph_find_shortest_path does, and otherwise a
\* path from source to target
DRunIsFindShortestPath ==
    dpc = "done" =>
        \A r \in {Graph_find_shortest_path(dedges, dsource, dtarget, "oldest")} :
            /\ (dret = None) <=> (r = None)
            /\ dret # None =>
                  /\ dret.val[1] = dsource
                  /\ dret.val[Len(dret.val)] = dtarget

----------------------------------------------------------------------------
(* main.rs, query.rs: the server.  serve_forever spawns one thread per      *)
(* connection; each thread runs query_user on the one T behind the Mutex.   *)
(* A command that changes disabled is taken in two steps, so that the T     *)
(* between them, with stations and graph emptied, is a state of the model.  *)

MaxClients == 2

Clients == 1..MaxClients

\* the station names the clients use
ServeNames == {StT, StE}

NoCmd == [cmd |-> "none"]

\* what parse_line makes of a line
Commands ==
    {[cmd |-> "from", from |-> f, to |-> t] : f \in ServeNames, t \in ServeNames}
    \cup {[cmd |-> c, station |-> n] : c \in {"disable", "enable"}, n \in ServeNames}
    \cup {[cmd |-> "invalid"]}

INVALID_QUERY == [tag |-> "InvalidQuery"]

\* a lock that never blocks its caller.
Mutex_lock_Unchecked(m) == TRUE

\* Mutex::lock returns only when the Mutex is not locked
Mutex_lock(m) == ~m

ServeInit ==
    /\ gedges = Graph_new
    /\ gout = NoCall
    /\ lineOrder \in LineOrders
    /\ connOrder \in ConnOrders
    /\ disabled = {}
    /\ \E descending \in BOOLEAN :
          \E r \in {rebuild_graph(lineOrder, connOrder, {}, descending)} :
              stations = r.stations /\ graph = r.graph
    /\ out = NoOutput
    /\ lgraph = <<>>
    /\ lgout = NoCall
    /\ ipath = <<>>
    /\ ik = 0
    /\ isteps = <<>>
    /\ ipc = "done"
    /\ dedges = <<>>
    /\ dsource = 0
    /\ dtarget = 0
    /\ dcost = <<>>
    /\ dqueue = <<>>
    /\ dcur = <<>>
    /\ dk = 0
    /\ dpc = "done"
    /\ dret = <<>>
    /\ mutex = FALSE
    /\ sess = [c \in Clients |->
                 [pc |-> "unconnected", sent |-> FALSE, cmd |-> NoCmd, out |-> NoOutput]]

\* serve_forever: a connection comes in and its thread is spawned
SAccept(c) ==
    /\ sess[c].pc = "unconnected"
    /\ sess' = [sess EXCEPT ![c].pc = "spawned"]
    /\ UNCHANGED <<gvars, tvars, lvars, ivars, dvars, mutex>>

\* the client writes a line; it waits in the stream until read_line takes it
SSend(c) ==
    /\ sess[c].pc \notin {"unconnected", "ended"}
    /\ ~sess[c].sent
    /\ sess' = [sess EXCEPT ![c].sent = TRUE]
    /\ UNCHANGED <<gvars, tvars, lvars, ivars, dvars, mutex>>

\* query_user, lines 102-105: lock the Mutex, then write the first prompt
SLock(c) ==
    /\ sess[c].pc = "spawned"
    /\ Mutex_lock(mutex)
    /\ mutex' = TRUE
    /\ sess' = [sess EXCEPT ![c].pc = "prompt"]
    /\ UNCHANGED <<gvars, tvars, lvars, ivars, dvars>>

\* lines 106-107: read_line yields a line and parse_line a command
SReadLine(c) ==
    /\ sess[c].pc = "prompt"
    /\ sess[c].sent
    /\ \E cmd \in Commands :
          sess' = [sess EXCEPT ![c].pc = "running", ![c].sent = FALSE, ![c].cmd = cmd]
    /\ UNCHANGED <<gvars, tvars, lvars, ivars, dvars, mutex>>

\* lines 108-110: From(from, to)
SFindPath(c) ==
    /\ sess[c].pc = "running"
    /\ sess[c].cmd.cmd = "from"
    /\ \E tie \in Ties :
          sess' = [sess EXCEPT
                     ![c].pc = "written",
                     ![c].out = sess[c].cmd @@
                         [ret |-> find_path(stations, disabled, graph,
                                            sess[c].cmd.from, sess[c].cmd.to, tie)]]
    /\ UNCHANGED <<gvars, tvars, lvars, ivars, dvars, mutex>>

\* lines 112-119, t.rs 343-351 and 178-179: modify_station up to the point
\* where rebuild_graph has emptied stations and graph
SModify(c) ==
    /\ sess[c].pc = "running"
    /\ sess[c].cmd.cmd \in {"disable", "enable"}
    /\ LET enable == sess[c].cmd.cmd = "enable"
           d == disambiguate_station(stations, disabled, sess[c].cmd.station)
       IN  IF d.tag = "Suggestions"
           THEN /\ sess' = [sess EXCEPT
                              ![c].pc = "written",
                              ![c].out = sess[c].cmd @@
                                  [ret |-> IF d.val = <<>> THEN NoSuchStationOp
                                           ELSE DisambiguateOp(d.val)]]
                /\ UNCHANGED <<stations, disabled, graph>>
           ELSE IF enable # (d.val \in disabled)
           THEN /\ sess' = [sess EXCEPT ![c].pc = "written",
                                        ![c].out = sess[c].cmd @@ [ret |-> Successful]]
                /\ UNCHANGED <<stations, disabled, graph>>
           ELSE /\ disabled' = IF enable THEN disabled \ {d.val} ELSE disabled \cup {d.val}
                /\ stations' = <<>>
                /\ graph' = LabeledGraph_new
                /\ sess' = [sess EXCEPT ![c].pc = "rebuilding"]
    /\ UNCHANGED <<gvars, lvars, ivars, dvars, lineOrder, connOrder, out, mutex>>

\* t.rs 180-182 and 353, query.rs 114 and 118: the rest of rebuild_graph,
\* then Successful is written
SRebuild(c) ==
    /\ sess[c].pc = "rebuilding"
    /\ \E descending \in BOOLEAN :
          \E r \in {rebuild_graph(lineOrder, connOrder, disabled, descending)} :
              /\ stations' = r.stations
              /\ graph' = r.graph
    /\ sess' = [sess EXCEPT ![c].pc = "written",
                            ![c].out = sess[c].cmd @@ [ret |-> Successful]]
    /\ UNCHANGED <<gvars, lvars, ivars, dvars, lineOrder, connOrder, disabled, out, mutex>>

\* lines 120-122: Invalid
SInvalid(c) ==
    /\ sess[c].pc = "running"
    /\ sess[c].cmd.cmd = "invalid"
    /\ sess' = [sess EXCEPT ![c].pc = "written",
                            ![c].out = sess[c].cmd @@ [ret |-> INVALID_QUERY]]
    /\ UNCHANGED <<gvars, tvars, lvars, ivars, dvars, mutex>>

\* a query_user that drops the guard after every command and has to lock
\* the Mutex again for the next one.
SPrompt_Unlock(c) ==
    /\ sess[c].pc = "written"
    /\ mutex' = FALSE
    /\ sess' = [sess EXCEPT ![c].pc = "spawned", ![c].cmd = NoCmd, ![c].out = NoOutput]
    /\ UNCHANGED <<gvars, tvars, lvars, ivars, dvars>>

\* lines 124-125: the next prompt
SPrompt(c) ==
    /\ sess[c].pc = "written"
    /\ sess' = [sess EXCEPT ![c].pc = "prompt", ![c].cmd = NoCmd, ![c].out = NoOutput]
    /\ UNCHANGED <<gvars, tvars, lvars, ivars, dvars, mutex>>

\* lines 106 and 127: read_line fails, the stream has ended; query_user
\* returns and the guard is dropped
SStreamEnd(c) ==
    /\ sess[c].pc = "prompt"
    /\ ~sess[c].sent
    /\ mutex' = FALSE
    /\ sess' = [sess EXCEPT ![c].pc = "ended"]
    /\ UNCHANGED <<gvars, tvars, lvars, ivars, dvars>>

ServeNext ==
    \E c \in Clients :
        \/ SAccept(c)
        \/ SSend(c)
        \/ SLock(c)
        \/ SReadLine(c)
        \/ SFindPath(c)
        \/ SModify(c)
        \/ SRebuild(c)
        \/ SInvalid(c)
        \/ SPrompt(c)
        \/ SStreamEnd(c)

ServeSpec == ServeInit /\ [][ServeNext]_vars

----------------------------------------------------------------------------
(* Reference definitions for the Graph claims: paths and their costs by    *)
(* enumeration, independent of the search.                                 *)

GNodes(edges) == 0..(Len(edges) - 1)

HasEdge(edges, u, v) == \E k \in 1..Len(edges[u + 1]) : edges[u + 1][k].node = v

\* the cheapest edge from u to v (parallel edges may differ in cost)
CheapestEdge(edges, u, v) ==
    LET cs == {edges[u + 1][k].cost : k \in {j \in 1..Len(edges[u + 1]) : edges[u + 1][j].node = v}}
    IN  CHOOSE c \in cs : \A d \in cs : c <= d

IsPath(edges, p) ==
    /\ Len(p) >= 1
    /\ \A i \in 1..Len(p) : p[i] \in GNodes(edges)
    /\ \A i \in 1..(Len(p) - 1) : HasEdge(edges, p[i], p[i + 1])

RECURSIVE PathCost(_, _)
PathCost(edges, p) ==
    IF Len(p) <= 1 THEN 0
    ELSE CheapestEdge(edges, p[1], p[2]) + PathCost(edges, Tail(p))

\* With costs >= 0 a cheapest path need not repeat a node: the paths from a
\* to b that visit no node twice
SimplePaths(edges, a, b) ==
    {p \in UNION {[1..k -> GNodes(edges)] : k \in 1..Len(edges)} :
        /\ p[1] = a
        /\ p[Len(p)] = b
        /\ \A i, j \in 1..Len(p) : i # j => p[i] # p[j]
        /\ IsPath(edges, p)}

MinPathCost(edges, a, b) ==
    LET cs == {PathCost(edges, p) : p \in SimplePaths(edges, a, b)}
    IN  CHOOSE c \in cs : \A d \in cs : c <= d

GReturned == gout # NoCall /\ gout.call = "find_shortest_path"

\* C1: whenever find_shortest_path(a, b) returns Some(path), path is a path
\* of the graph from a to b and the sum of the edge costs along it is the
\* minimum cost over all paths from a to b.
C1_ShortestPathHasMinCost ==
    (GReturned /\ gout.ret.tag = "Some") =>
        /\ IsPath(gedges, gout.ret.val)
        /\ PathCost(gedges, gout.ret.val) = MinPathCost(gedges, gout.source, gout.target)

\* C1 witness: a direct edge 0 -> 2 of cost 4 exists and the search returns
\* the two-hop path of cost 2 instead.
C1_Witness ==
    /\ GReturned
    /\ gout.source = 0 /\ gout.target = 2
    /\ Len(gedges) = 3
    /\ \E k \in 1..Len(gedges[1]) : gedges[1][k] = Edge(2, 4)
    /\ gout.ret = Some(<<0, 1, 2>>)
    /\ PathCost(gedges, gout.ret.val) = 2

\* C2: find_shortest_path(a, b) is None exactly when b cannot be reached
\* from a along edge directions; otherwise it is a path of the graph that
\* starts with a and ends with b, of length 1 exactly when a = b.
C2_NoneIffUnreachable ==
    GReturned =>
        LET a == gout.source
            b == gout.target
        IN  /\ (gout.ret = None) <=> (SimplePaths(gedges, a, b) = {})
            /\ gout.ret # None =>
                  LET p == gout.ret.val
                  IN  /\ IsPath(gedges, p)
                      /\ p[1] = a
                      /\ p[Len(p)] = b
                      /\ (Len(p) = 1) <=> (a = b)

\* C2 witness: a lies on a cycle (a -> b -> a) and find_shortest_path(a, a)
\* returned [a].
C2_Witness ==
    /\ GReturned
    /\ gout.source = gout.target
    /\ \E b \in GNodes(gedges) \ {gout.source} :
          HasEdge(gedges, gout.source, b) /\ HasEdge(gedges, b, gout.source)
    /\ gout.ret = Some(<<gout.source>>)

----------------------------------------------------------------------------
(* Reference definitions for the claims about T, stated on the loaded      *)
(* data and not on the derived stations map or graph.                      *)

IsSubstring(needle, hay) ==
    \E i \in 1..(Len(hay) + 1), j \in 0..Len(hay) : SubSeq(hay, i, j) = needle

\* a comes before b in ascending alphabetical (lexicographic) order
LexLess(a, b) ==
    \E k \in 1..Len(b) :
        /\ k <= Len(a) + 1
        /\ \A i \in 1..(k - 1) : a[i] = b[i]
        /\ (k = Len(a) + 1 \/ a[k] < b[k])

\* the known stations (enabled or disabled) whose name contains name
KnownMatches(name) == {s \in AllStations : IsSubstring(name, s)}

\* v lists exactly the elements of M, each once, in ascending order
IsSortedListOf(v, M) ==
    /\ Len(v) = Cardinality(M)
    /\ Range(v) = M
    /\ \A i \in 1..(Len(v) - 1) : LexLess(v[i], v[i + 1])

UniquelyNamed(name) == Cardinality(KnownMatches(name)) = 1

\* the station a uniquely matching name stands for
Resolved(name) == CHOOSE s \in KnownMatches(name) : TRUE

LinesOf(s) == {l \in DOMAIN source_data : s \in Range(source_data[l])}

\* the real nodes of station s, one per line through it
RealNodes(s) == {Node(s, l) : l \in LinesOf(s)}

PositionOn(l, s) == CHOOSE i \in 1..Len(source_data[l]) : source_data[l][i] = s

\* the stations strictly between x and y on line l
Between(l, x, y) ==
    LET i == PositionOn(l, x)
        j == PositionOn(l, y)
    IN  {source_data[l][k] : k \in {m \in 1..Len(source_data[l]) :
                                        (i < m /\ m < j) \/ (j < m /\ m < i)}}

\* the indices reachable from the set of indices `seen` along edges
RECURSIVE ReachableFrom(_, _)
ReachableFrom(edges, seen) ==
    LET more == UNION {{edges[u + 1][k].node : k \in 1..Len(edges[u + 1])} : u \in seen} \ seen
    IN  IF more = {} THEN seen ELSE ReachableFrom(edges, seen \cup more)

\* the node a query enters (leaves) an enabled station by
EntryNode(s) == IF Len(stations[s]) = 1 THEN stations[s][1] ELSE Node(s, START_NODE_LABEL)
ExitNode(s) == IF Len(stations[s]) = 1 THEN stations[s][1] ELSE Node(s, END_NODE_LABEL)

\* the graph holds a route from enabled station s to enabled station d
RouteExists(s, d) ==
    /\ EntryNode(s) \in DOMAIN graph.labels
    /\ ExitNode(d) \in DOMAIN graph.labels
    /\ graph.labels[ExitNode(d)] \in ReachableFrom(graph.graph, {graph.labels[EntryNode(s)]})

IsModify(o) == o.cmd \in {"enable", "disable"}

----------------------------------------------------------------------------
(* Claims *)

\* C3: disambiguate_station(name) takes the set M of all known stations
\* (enabled or disabled) whose name contains name: one element gives
\* Station(it), otherwise Suggestions lists exactly M, each name once, in
\* ascending order (empty when M is empty); find_path with a start that
\* matches several stations answers DisambiguateStart of that sorted list.
C3_DisambiguateListsMatches ==
    /\ \A name \in QueryNames :
          LET M == KnownMatches(name)
              r == disambiguate_station(stations, disabled, name)
          IN  IF Cardinality(M) = 1
              THEN r = DisambiguationResult_Station(Resolved(name))
              ELSE r.tag = "Suggestions" /\ IsSortedListOf(r.val, M)
    /\ (out.cmd = "from" /\ Cardinality(KnownMatches(out.from)) > 1) =>
          /\ out.ret.tag = "DisambiguateStart"
          /\ IsSortedListOf(out.ret.val, KnownMatches(out.from))

\* C3 witness: with one of the two matches disabled, find_path from the
\* name they share answered the ambiguous start with both, sorted.
C3_Witness ==
    /\ out.cmd = "from"
    /\ out.from = <<1>>
    /\ StAc \in disabled
    /\ StAb \notin disabled
    /\ out.ret = DisambiguateStart(<<StAb, StAc>>)

\* C4: for every known station name s (enabled or disabled),
\* disambiguate_station(s) returns Station(s).
C4_FullNameIsUnique ==
    \A s \in AllStations :
        disambiguate_station(stations, disabled, s) = DisambiguationResult_Station(s)

\* C5: find_path decides in this order: start unknown, start ambiguous,
\* destination unknown, destination ambiguous, start disabled, destination
\* disabled, no route, route found.
C5_FindPathOrder ==
    out.cmd = "from" =>
        LET Ms == KnownMatches(out.from)
            Md == KnownMatches(out.to)
            r  == out.ret
        IN  IF Ms = {} THEN r = NoSuchStart
            ELSE IF Cardinality(Ms) > 1
            THEN r.tag = "DisambiguateStart" /\ IsSortedListOf(r.val, Ms)
            ELSE IF Md = {} THEN r = NoSuchDest
            ELSE IF Cardinality(Md) > 1
            THEN r.tag = "DisambiguateDestination" /\ IsSortedListOf(r.val, Md)
            ELSE IF Resolved(out.from) \in disabled THEN r = DisabledStart(Resolved(out.from))
            ELSE IF Resolved(out.to) \in disabled THEN r = DisabledDest(Resolved(out.to))
            ELSE IF ~RouteExists(Resolved(out.from), Resolved(out.to)) THEN r = NoSuchPath
            ELSE r.tag = "TOk"

\* C5 witness: a disabled start with an ambiguous destination was answered
\* DisambiguateDestination.
C5_Witness ==
    /\ out.cmd = "from"
    /\ UniquelyNamed(out.from)
    /\ Resolved(out.from) \in disabled
    /\ Cardinality(KnownMatches(out.to)) > 1
    /\ out.ret.tag = "DisambiguateDestination"

\* C6: the keys of stations are the loaded station names minus disabled,
\* so k disabled stations leave k fewer keys; after a successful disable
\* the station is in disabled and has no node in stations or the graph;
\* after a successful enable it is not in disabled and stations holds its
\* nodes again.
C6_StationsAreTheEnabled ==
    /\ DOMAIN stations = AllStations \ disabled
    /\ Cardinality(DOMAIN stations) = Cardinality(AllStations) - Cardinality(disabled)
    /\ \A n \in DOMAIN graph.labels : n.station \notin disabled
    /\ \A i \in 1..Len(graph.indices) : graph.indices[i].station \notin disabled
    /\ (out.cmd = "disable" /\ out.ret = Successful) =>
          /\ Resolved(out.station) \in disabled
          /\ Resolved(out.station) \notin DOMAIN stations
    /\ (out.cmd = "enable" /\ out.ret = Successful) =>
          /\ Resolved(out.station) \notin disabled
          /\ Resolved(out.station) \in DOMAIN stations
          /\ RealNodes(Resolved(out.station)) \subseteq Range(stations[Resolved(out.station)])

\* C6 witness: the second of two stations, the transfer station among
\* them, has just been disabled and stations has two keys fewer.
C6_Witness ==
    /\ out.cmd = "disable"
    /\ out.ret = Successful
    /\ Cardinality(disabled) = 2
    /\ StT \in disabled
    /\ Cardinality(DOMAIN stations) = Cardinality(AllStations) - 2

\* the command asks for the state the uniquely named station is already in
AlreadyAsAsked(o) ==
    /\ IsModify(o)
    /\ UniquelyNamed(o.station)
    /\ (o.cmd = "disable") <=> (Resolved(o.station) \in disabled)

\* C7: disable_station of an already disabled station and enable_station
\* of an already enabled one return Successful and leave disabled, stations
\* and the graph exactly as they were.
C7_ModifyIdempotent ==
    [][(out = NoOutput /\ AlreadyAsAsked(out')) =>
          /\ out'.ret = Successful
          /\ UNCHANGED <<disabled, stations, graph>>]_vars

\* C7 witness: disable_station has answered Successful for a station that
\* is disabled, with both transfer stations still enabled (a rebuild could
\* have numbered their entry and exit nodes in another order).
C7_Witness ==
    /\ out.cmd = "disable"
    /\ out.ret = Successful
    /\ Resolved(out.station) \in disabled
    /\ StT \notin disabled
    /\ StE \notin disabled

\* C8: a name that matches several stations makes enable_station and
\* disable_station return DisambiguateOp(sorted matches), a name that
\* matches none NoSuchStationOp; disabled, stations and the graph are
\* unchanged in both cases.
C8_ModifyAmbiguousOrUnknown ==
    [][(out = NoOutput /\ IsModify(out') /\ ~UniquelyNamed(out'.station)) =>
          /\ KnownMatches(out'.station) = {} => out'.ret = NoSuchStationOp
          /\ KnownMatches(out'.station) # {} =>
                /\ out'.ret.tag = "DisambiguateOp"
                /\ IsSortedListOf(out'.ret.val, KnownMatches(out'.station))
          /\ UNCHANGED <<disabled, stations, graph>>]_vars

\* C8 witness: disable_station of a name two stations share was answered
\* with both of them, and neither is disabled.
C8_Witness ==
    /\ out.cmd = "disable"
    /\ out.station = <<1>>
    /\ out.ret = DisambiguateOp(<<StAb, StAc>>)
    /\ StAb \notin disabled
    /\ StAc \notin disabled
    /\ disabled # {}

\* the graph as a query sees it: for every node its neighbours and costs by
\* label, in adjacency order (indices do not show in any result)
LabelView(lg) ==
    [n \in DOMAIN lg.labels |->
        [k \in 1..Len(lg.graph[lg.labels[n] + 1]) |->
            [node |-> lg.indices[lg.graph[lg.labels[n] + 1][k].node + 1],
             cost |-> lg.graph[lg.labels[n] + 1][k].cost]]]

\* every find_path result, for every pair of names and either tie policy
AllAnswers(st, dis, lg) ==
    [q \in QueryNames \X QueryNames \X Ties |-> find_path(st, dis, lg, q[1], q[2], q[3])]

\* C9: disable_station(s) followed by enable_station(s), for an enabled,
\* uniquely named s, restores the network: find_path returns for every pair
\* of names what it returned before the disable, and the stations map and
\* the edges of the graph are those from before (they depend on disabled
\* alone).  Stated on the disable step: whatever enable_station(s) makes of
\* the state after it is compared with the state before it.
C9_DisableEnableRoundTrip ==
    [][(/\ out = NoOutput
        /\ out'.cmd = "disable"
        /\ UniquelyNamed(out'.station)
        /\ Resolved(out'.station) \notin disabled) =>
          /\ out'.ret = Successful
          /\ disabled' # disabled
          /\ \A descending \in BOOLEAN :
               \A r \in {enable_station(lineOrder, connOrder, stations', disabled',
                                        graph', out'.station, descending)} :
                   /\ r.ret = Successful
                   /\ r.disabled = disabled
                   /\ r.stations = stations
                   /\ LabelView(r.graph) = LabelView(graph)
                   /\ AllAnswers(r.stations, r.disabled, r.graph)
                          = AllAnswers(stations, disabled, graph)]_vars

\* C9 witness: the transfer station has been enabled again while another
\* station is still disabled.
C9_Witness ==
    /\ out.cmd = "enable"
    /\ out.ret = Successful
    /\ Resolved(out.station) = StT
    /\ StT \in DOMAIN stations
    /\ disabled # {}

\* find_path was asked for two distinct enabled stations of one line, with
\* at least one station between them on it, all of those disabled
C10_Case ==
    /\ out.cmd = "from"
    /\ UniquelyNamed(out.from)
    /\ UniquelyNamed(out.to)
    /\ Resolved(out.from) # Resolved(out.to)
    /\ Resolved(out.from) \notin disabled
    /\ Resolved(out.to) \notin disabled
    /\ \E l \in LinesOf(Resolved(out.from)) \cap LinesOf(Resolved(out.to)) :
          /\ Between(l, Resolved(out.from), Resolved(out.to)) # {}
          /\ Between(l, Resolved(out.from), Resolved(out.to)) \subseteq disabled

BothDisambiguate ==
    /\ disambiguate_station(stations, disabled, out.from)
           = DisambiguationResult_Station(Resolved(out.from))
    /\ disambiguate_station(stations, disabled, out.to)
           = DisambiguationResult_Station(Resolved(out.to))

\* C10 as claimed: with every station between two enabled stations of a
\* line disabled, find_path between the two returns NoSuchPath, while both
\* names still disambiguate.
C10_NoPathBetweenEndpoints ==
    C10_Case => (out.ret = NoSuchPath /\ BothDisambiguate)

\* C10 amended: in that case find_path returns TOk with the direct ride from
\* the one endpoint to the other on a line (the disabled stations are
\* bypassed), and both names still disambiguate.
C10_DirectRideBetweenEndpoints ==
    C10_Case =>
        /\ BothDisambiguate
        /\ \E l \in LinesOf(Resolved(out.from)) \cap LinesOf(Resolved(out.to)) :
              out.ret = TOk(<<Station(Resolved(out.from), l), Station(Resolved(out.to), l)>>)

\* C10 witness: the case has happened and a route was returned.
C10_Witness ==
    /\ C10_Case
    /\ out.ret.tag = "TOk"
    /\ out.ret.val # <<>>

----------------------------------------------------------------------------
(* Reference definitions: which lines the data joins *)

\* the enabled stations of line l
EnabledOn(l) == {s \in Range(source_data[l]) : s \notin disabled}

\* the line a connection rule joins its first line to: line two when it has
\* an enabled station, else the fallback line when there is one with an
\* enabled station, else none
RuleTarget(rule) ==
    IF EnabledOn(rule[2]) # {} THEN Some(rule[2])
    ELSE IF rule[3].tag = "Some" /\ rule[3].val \in DOMAIN source_data
            /\ EnabledOn(rule[3].val) # {}
    THEN rule[3]
    ELSE None

\* a connection rule joins line l to another line
RuleJoins(rule, l) ==
    /\ EnabledOn(rule[1]) # {}
    /\ RuleTarget(rule).tag = "Some"
    /\ RuleTarget(rule).val # rule[1]
    /\ l \in {rule[1], RuleTarget(rule).val}

\* line l has enabled stations but shares none with another line, and no
\* connection rule joins it to another line
IsolatedLine(l) ==
    /\ EnabledOn(l) # {}
    /\ \A l2 \in DOMAIN source_data \ {l} : EnabledOn(l) \cap EnabledOn(l2) = {}
    /\ \A rule \in connections : ~RuleJoins(rule, l)

\* find_path was asked for an enabled station of an isolated line and an
\* enabled station that is not on that line
C11_Case ==
    /\ out.cmd = "from"
    /\ UniquelyNamed(out.from)
    /\ UniquelyNamed(out.to)
    /\ Resolved(out.from) \notin disabled
    /\ Resolved(out.to) \notin disabled
    /\ \E l \in LinesOf(Resolved(out.from)) :
          /\ IsolatedLine(l)
          /\ Resolved(out.to) \notin Range(source_data[l])

\* C11: when every transfer station that joins a line to the rest of the
\* network is disabled and no connection rule joins it either, find_path
\* from an enabled station of that line to an enabled station of another
\* line returns NoSuchPath, not a Disabled or NoSuch result.
C11_IsolatedLineNoSuchPath ==
    C11_Case => out.ret = NoSuchPath

\* C11 witness: with the transfer stations T and E disabled, a route from
\* Ac on the orange line to a station of the red line was asked for.
C11_Witness ==
    /\ C11_Case
    /\ {StT, StE} \subseteq disabled
    /\ Resolved(out.from) = StAc
    /\ Resolved(out.to) \in Range(source_data.red)
    /\ out.ret = NoSuchPath

\* a station with nodes on several lines: its entry in stations ends with
\* the start node and the end node
IsTransfer(s) == s \in DOMAIN stations /\ Len(stations[s]) > 1

\* C12: whenever find_path returns TOk(steps) with steps not empty, the
\* first and the last step are Station steps, never a Switch or an Ensure,
\* whichever node of a transfer station the path enters or leaves by.
C12_RouteEndsAreRides ==
    (out.cmd = "from" /\ out.ret.tag = "TOk" /\ out.ret.val # <<>>) =>
        /\ out.ret.val[1].step = "Station"
        /\ out.ret.val[Len(out.ret.val)].step = "Station"

\* C12 witness: a route with a change of line that ends at a transfer
\* station was returned.
C12_Witness ==
    /\ out.cmd = "from"
    /\ out.ret.tag = "TOk"
    /\ UniquelyNamed(out.from)
    /\ UniquelyNamed(out.to) /\ IsTransfer(Resolved(out.to))
    /\ Resolved(out.from) # Resolved(out.to)
    /\ \E i \in 1..Len(out.ret.val) : out.ret.val[i].step # "Station"
    /\ out.ret.val[Len(out.ret.val)].step = "Station"

\* find_path was asked for a route from an enabled station to itself
C13_Case ==
    /\ out.cmd = "from"
    /\ UniquelyNamed(out.from)
    /\ UniquelyNamed(out.to)
    /\ Resolved(out.from) = Resolved(out.to)
    /\ Resolved(out.from) \notin disabled

\* C13 as claimed: when start and destination resolve to the same enabled
\* station, find_path returns TOk with zero steps, at transfer stations
\* and at the only surviving station of a line as well.
C13_SameStationZeroSteps ==
    C13_Case => out.ret = TOk(<<>>)

----------------------------------------------------------------------------
(* Claims about Graph::add_edge (GraphSpec) *)

\* every target index stored in an adjacency list is a node of the graph
TargetsAreNodes ==
    \A i \in 1..Len(gedges) : \A k \in 1..Len(gedges[i]) :
        gedges[i][k].node \in 0..(Len(gedges) - 1)

\* add_edge has just been called
AddEdgeCalled == gout = NoCall /\ gout'.call = "add_edge"

\* C17: Graph::add_edge with a source or target index that is not smaller
\* than the node count fails its assertion before any adjacency list is
\* modified, so every target index stored in an adjacency list is smaller
\* than the number of nodes in every reachable graph state.
C17_AddEdgeChecksIndices ==
    /\ []TargetsAreNodes
    /\ [][AddEdgeCalled =>
             /\ gout'.panicked <=>
                    (gout'.source >= Len(gedges) \/ gout'.target >= Len(gedges))
             /\ gout'.panicked => gedges' = gedges]_vars

\* C17 witness: add_edge(1, 2, ...) on a graph of two nodes that has an
\* edge already has panicked.
C17_Witness ==
    /\ gout.call = "add_edge"
    /\ gout.panicked
    /\ Len(gedges) = 2
    /\ gout.source = 1
    /\ gout.target = 2
    /\ EdgeCount(gedges) > 0

\* the entries add_edge pushes to the adjacency list of node i
PushedTo(i, c) ==
    (IF i = c.source
     THEN <<[node |-> c.target, cost |-> IF c.weight = None THEN 1 ELSE c.weight.val]>>
     ELSE <<>>)
    \o (IF i = c.target /\ ~c.directed
        THEN <<[node |-> c.source, cost |-> IF c.weight = None THEN 1 ELSE c.weight.val]>>
        ELSE <<>>)

\* C18: Graph::add_edge(source, target, weight, directed) with valid
\* indices appends (target, cost) to the list of source, with cost the
\* weight or 1 when it is absent, appends (source, cost) to the list of
\* target iff directed is false, and changes no other list and no node
\* count.
C18_AddEdgeFrame ==
    [][(AddEdgeCalled /\ ~gout'.panicked) =>
           /\ Len(gedges') = Len(gedges)
           /\ \A i \in 0..(Len(gedges) - 1) :
                  gedges'[i + 1] = gedges[i + 1] \o PushedTo(i, gout')]_vars

\* C18 witness: an undirected edge without a weight was added between two
\* nodes of a graph of three nodes that had an edge already.
C18_Witness ==
    /\ gout.call = "add_edge"
    /\ ~gout.panicked
    /\ ~gout.directed
    /\ gout.weight = None
    /\ gout.source # gout.target
    /\ Len(gedges) = 3
    /\ EdgeCount(gedges) = 3
    /\ gedges[gout.source + 1][Len(gedges[gout.source + 1])] = Edge(gout.target, 1)
    /\ gedges[gout.target + 1][Len(gedges[gout.target + 1])] = Edge(gout.source, 1)

----------------------------------------------------------------------------
(* Claims about LabeledGraph (LabeledGraphSpec) *)

\* labels and indices are inverse to each other and as long as the inner
\* graph has nodes
LabelsMatchIndices ==
    /\ Cardinality(DOMAIN lgraph.labels) = Len(lgraph.indices)
    /\ Len(lgraph.indices) = Len(lgraph.graph)
    /\ \A n \in DOMAIN lgraph.labels :
          /\ lgraph.labels[n] \in 0..(Len(lgraph.indices) - 1)
          /\ lgraph.indices[lgraph.labels[n] + 1] = n
    /\ \A i \in 1..Len(lgraph.indices) :
          /\ lgraph.indices[i] \in DOMAIN lgraph.labels
          /\ lgraph.labels[lgraph.indices[i]] = i - 1

\* the labels a call of add_edge registers, in the order it registers them
NewLabels(c) ==
    (IF c.source \in DOMAIN lgraph.labels THEN <<>> ELSE <<c.source>>)
    \o (IF c.target \in DOMAIN lgraph.labels \/ c.target = c.source
        THEN <<>> ELSE <<c.target>>)

\* C19: after any sequence of LabeledGraph::add_edge calls labels and
\* indices are inverse bijections and labels, indices and the inner graph
\* have the same number of nodes; indices are assigned in order of first
\* appearance, source before target within one call, and a label that is
\* registered already keeps its index and is not added again.
C19_LabelsAndIndices ==
    /\ []LabelsMatchIndices
    /\ [][(lgout = NoCall /\ lgout'.call = "add_edge") =>
             /\ lgraph'.indices = lgraph.indices \o NewLabels(lgout')
             /\ \A n \in DOMAIN lgraph.labels :
                    /\ n \in DOMAIN lgraph'.labels
                    /\ lgraph'.labels[n] = lgraph.labels[n]]_vars

\* C19 witness: an edge from a label that was registered before to a new
\* label was added, and an edge between two new labels before that.
C19_Witness ==
    /\ lgout.call = "add_edge"
    /\ Len(lgraph.indices) = 3
    /\ lgraph.indices[3] = lgout.target
    /\ lgout.source \in {lgraph.indices[1], lgraph.indices[2]}
    /\ EdgeCount(lgraph.graph) >= 2

\* the sequence of the labels of a sequence of indices
LabelsOf(p) == [i \in 1..Len(p) |-> lgraph.indices[p[i] + 1]]

\* C20: LabeledGraph::find_shortest_path(source, target) returns None when
\* either label is unregistered; otherwise its result is the inner graph's
\* result for the indices of the labels, mapped back to labels through
\* indices (None stays None); the call changes neither labels, indices nor
\* edges.
C20_LabeledFindShortestPath ==
    [][(lgout = NoCall /\ lgout'.call = "find_shortest_path") =>
           /\ lgraph' = lgraph
           /\ \A c \in {lgout'} :
                  IF c.source \notin DOMAIN lgraph.labels \/ c.target \notin DOMAIN lgraph.labels
                  THEN c.ret = None
                  ELSE \A inner \in {Graph_find_shortest_path(lgraph.graph,
                                         lgraph.labels[c.source], lgraph.labels[c.target],
                                         c.tie)} :
                           IF inner = None
                           THEN c.ret = None
                           ELSE /\ c.ret = Some(LabelsOf(inner.val))
                                /\ c.ret.val[1] = c.source
                                /\ c.ret.val[Len(c.ret.val)] = c.target]_vars

\* C20 witness: None was returned for a path from a registered label to a
\* label that is not registered, in a graph of two labels with edges.
C20_Witness ==
    /\ lgout.call = "find_shortest_path"
    /\ lgout.ret = None
    /\ lgout.source \in DOMAIN lgraph.labels
    /\ lgout.target \notin DOMAIN lgraph.labels
    /\ Len(lgraph.indices) = 2
    /\ EdgeCount(lgraph.graph) >= 2

----------------------------------------------------------------------------
(* Claims about the path interpreter (InterpretSpec) *)

\* the steps of the transition rule for the pair (prev, curr)
TransitionSteps(prev, curr) ==
    IF prev.line = curr.line
    THEN <<Station(curr.station, curr.line)>>
    ELSE IF prev.station = curr.station
    THEN <<Switch(prev.line, curr.line)>>
    ELSE <<Ensure(curr.line), Station(curr.station, curr.line)>>

\* C14: for every consecutive pair (prev, curr) after the first pair the
\* interpreter appends exactly Station(curr) when the lines are equal,
\* Switch(prev.line, curr.line) when the lines differ and the stations are
\* equal, and Ensure(curr.line) then Station(curr) when both differ.
C14_TransitionRule ==
    [][(ipc = "loop" /\ ipc' = "loop") =>
           isteps' = isteps \o TransitionSteps(ipath[ik], ipath[ik + 1])]_vars

\* C14 witness: the third node of a path was processed and it was on
\* another line at another station than the second (the Ensure case).
C14_Witness ==
    /\ ipc = "loop"
    /\ ik = 3
    /\ ipath[2].line # ipath[3].line
    /\ ipath[2].station # ipath[3].station
    /\ isteps[Len(isteps) - 1] = Ensure(ipath[3].line)

\* the first pair of the path has just been processed
FirstPairDone == ipc = "start" /\ ipc' = "loop"

\* C15 as claimed: when the two nodes of the first pair are at the same
\* station the interpreter emits Station(prev.station, prev.line) and then
\* the steps of the transition rule for the pair.
C15_FirstPairRidePrevThenRule ==
    [][(FirstPairDone /\ ipath[1].station = ipath[2].station) =>
           isteps' = <<Station(ipath[1].station, ipath[1].line)>>
                         \o TransitionSteps(ipath[1], ipath[2])]_vars

\* C15 amended: when the two nodes of the first pair are at the same
\* station the interpreter emits one step only, Station(curr.station,
\* curr.line), which carries the line of curr, and does not apply the
\* transition rule to the pair.
C15_FirstPairSameStationRideCurr ==
    [][(FirstPairDone /\ ipath[1].station = ipath[2].station) =>
           /\ isteps' = <<Station(ipath[2].station, ipath[2].line)>>
           /\ (ipath[1].line # ipath[2].line =>
                  isteps' # <<Station(ipath[1].station, ipath[1].line)>>)]_vars

\* C15 witness: a first pair at one station on two lines was processed.
C15_Witness ==
    /\ ipc = "loop"
    /\ ik = 2
    /\ ipath[1].station = ipath[2].station
    /\ ipath[1].line = START_NODE_LABEL
    /\ ipath[2].line # START_NODE_LABEL
    /\ Len(isteps) = 1

\* C16: process_first_nodes(prev, curr) appends exactly one step,
\* Station(curr.station, curr.line), when prev and curr are at the same
\* station, and Station(prev.station, prev.line) followed by the steps of
\* the transition rule for (prev, curr) when they are at different stations.
C16_ProcessFirstNodes ==
    [][FirstPairDone =>
           isteps' = isteps \o
               (IF ipath[1].station = ipath[2].station
                THEN <<Station(ipath[2].station, ipath[2].line)>>
                ELSE <<Station(ipath[1].station, ipath[1].line)>>
                         \o TransitionSteps(ipath[1], ipath[2]))]_vars

\* C16 witness: a first pair at two stations on two lines was processed,
\* which gave a ride, an Ensure and a ride.
C16_Witness ==
    /\ ipc = "loop"
    /\ ik = 2
    /\ ipath[1].station # ipath[2].station
    /\ ipath[1].line # ipath[2].line
    /\ Len(isteps) = 3

----------------------------------------------------------------------------
(* Claims about the rebuilt graph (Spec) *)

\* the graph has an edge from label a to label b of cost c
LEdge(a, b, c) ==
    /\ a \in DOMAIN graph.labels
    /\ b \in DOMAIN graph.labels
    /\ \E k \in 1..Len(graph.graph[graph.labels[a] + 1]) :
          graph.graph[graph.labels[a] + 1][k] = Edge(graph.labels[b], c)

\* the graph has an undirected edge of cost c between labels a and b
LJoined(a, b, c) == LEdge(a, b, c) /\ LEdge(b, a, c)

\* positions i < j of line l hold enabled stations with none between them
ConsecutiveSurvivors(l, i, j) ==
    /\ i < j
    /\ source_data[l][i] \notin disabled
    /\ source_data[l][j] \notin disabled
    /\ \A m \in (i + 1)..(j - 1) : source_data[l][m] \in disabled

\* C22: after every rebuild the node of each surviving station of a line is
\* joined by an undirected edge of cost 1 to the node of the previous
\* surviving station of that line, disabled stations between them being
\* bypassed, and every two real nodes of different lines at one station
\* are joined by an undirected edge of cost TRANSFER_COST = 2.
C22_LineAndTransferEdges ==
    /\ \A l \in DOMAIN source_data :
          \A i \in 1..Len(source_data[l]), j \in 1..Len(source_data[l]) :
              ConsecutiveSurvivors(l, i, j) =>
                  LJoined(Node(source_data[l][i], l), Node(source_data[l][j], l), 1)
    /\ \A s \in AllStations \ disabled :
          \A l1 \in LinesOf(s), l2 \in LinesOf(s) :
              l1 # l2 => LJoined(Node(s, l1), Node(s, l2), 2)

\* C22 witness: T has just been disabled; Ab and b are joined on the red
\* line past it, and the two nodes of E are joined by a transfer edge.
C22_Witness ==
    /\ out.cmd = "disable"
    /\ StT \in disabled
    /\ StE \notin disabled
    /\ ConsecutiveSurvivors("red", 1, 3)
    /\ LJoined(Node(StAb, "red"), Node(StB, "red"), 1)
    /\ LJoined(Node(StE, "orange"), Node(StE, "branch"), 2)

\* the graph has an edge from label a to label b, of whatever cost
LAnyEdge(a, b) ==
    /\ a \in DOMAIN graph.labels
    /\ b \in DOMAIN graph.labels
    /\ \E k \in 1..Len(graph.graph[graph.labels[a] + 1]) :
          graph.graph[graph.labels[a] + 1][k].node = graph.labels[b]

\* the first and the last enabled station of line l (l has one)
FirstSurvivor(l) ==
    CHOOSE s \in EnabledOn(l) : \A t \in EnabledOn(l) : PositionOn(l, s) <= PositionOn(l, t)
LastSurvivor(l) ==
    CHOOSE s \in EnabledOn(l) : \A t \in EnabledOn(l) : PositionOn(l, s) >= PositionOn(l, t)

\* both stations a connection rule joins can be found
HasTermini(rule) == EnabledOn(rule[1]) # {} /\ RuleTarget(rule).tag = "Some"

\* the two stations a connection rule with termini joins
TerminusOne(rule) == FirstSurvivor(rule[1])
TerminusTwo(rule) == LastSurvivor(RuleTarget(rule).val)

\* the edges of a connection rule are in the graph: every real node of the
\* one terminus is joined to every real node of the other at TRANSFER_COST
RuleApplied(rule) ==
    \A n1 \in RealNodes(TerminusOne(rule)), n2 \in RealNodes(TerminusTwo(rule)) :
        LJoined(n1, n2, 2)

\* no edge joins a start_node or end_node of the one terminus of the rule
\* to a node of the other
RuleAvoidsUnbiased(rule) ==
    \A lab \in {START_NODE_LABEL, END_NODE_LABEL},
       l \in DOMAIN source_data \cup {START_NODE_LABEL, END_NODE_LABEL} :
        /\ ~LAnyEdge(Node(TerminusOne(rule), lab), Node(TerminusTwo(rule), l))
        /\ ~LAnyEdge(Node(TerminusTwo(rule), l), Node(TerminusOne(rule), lab))
        /\ ~LAnyEdge(Node(TerminusTwo(rule), lab), Node(TerminusOne(rule), l))
        /\ ~LAnyEdge(Node(TerminusOne(rule), l), Node(TerminusTwo(rule), lab))

\* C23 as claimed: for each connection rule (line_a, line_b, fallback) the
\* rebuild joins every real node of the first enabled station of line_a to
\* every real node of the last enabled station of line_b, or of the
\* fallback line when line_b has no enabled station, by an undirected
\* TRANSFER_COST edge, and these edges touch no start_node or end_node.
C23_ConnectionEdges ==
    \A rule \in connections :
        HasTermini(rule) => (RuleApplied(rule) /\ RuleAvoidsUnbiased(rule))

\* C24 as claimed: when a connection rule has a terminus that cannot be
\* found, only that rule is skipped: every other rule whose two termini
\* exist is applied in the same rebuild, whatever the order of the rules.
C24_OnlyThatRuleSkipped ==
    \A skipped \in connections, rule \in connections :
        (~HasTermini(skipped) /\ HasTermini(rule)) => RuleApplied(rule)

\* the entries of the adjacency list of label a, as a set
OutEdges(a) == Range(graph.graph[graph.labels[a] + 1])

\* some label of the graph has an edge to label a
HasInEdge(a) == \E b \in DOMAIN graph.labels : LAnyEdge(b, a)

\* the entry of station s in stations: one real node, or all the real
\* nodes of s, each once, then the start node, then the end node
EntryShape(s) ==
    LET v == stations[s]
        k == Len(v) - 2
    IN  IF Cardinality(LinesOf(s)) = 1
        THEN v = <<Node(s, CHOOSE l \in LinesOf(s) : TRUE)>>
        ELSE /\ k = Cardinality(LinesOf(s))
             /\ {v[i] : i \in 1..k} = RealNodes(s)
             /\ v[k + 1] = Node(s, START_NODE_LABEL)
             /\ v[k + 2] = Node(s, END_NODE_LABEL)

\* the start node of transfer station s has an edge of cost 0 to each real
\* node of s and no other edge, in or out; the end node has an edge of
\* cost 0 from each real node of s and no other edge, in or out
UnbiasedEdges(s) ==
    LET start_node == Node(s, START_NODE_LABEL)
        end_node   == Node(s, END_NODE_LABEL)
    IN  /\ OutEdges(start_node) = {Edge(graph.labels[n], 0) : n \in RealNodes(s)}
        /\ Len(graph.graph[graph.labels[start_node] + 1]) = Cardinality(RealNodes(s))
        /\ ~HasInEdge(start_node)
        /\ OutEdges(end_node) = {}
        /\ \A b \in DOMAIN graph.labels :
              IF b \in RealNodes(s)
              THEN LEdge(b, end_node, 0) /\ ~LEdge(b, end_node, 1) /\ ~LEdge(b, end_node, 2)
              ELSE ~LAnyEdge(b, end_node)

IsUnbiased(n) == n.line \in {START_NODE_LABEL, END_NODE_LABEL}

\* the answers of a search from the entry node of s to the exit node of d
SearchAnswers(s, d) ==
    {LabeledGraph_find_shortest_path(graph, EntryNode(s), ExitNode(d), tie) : tie \in Ties}

\* C25: after every rebuild each entry of stations holds exactly one real
\* node, or two or more real nodes followed by the start_node and then the
\* end_node of the station; the start_node has only outgoing zero-cost
\* edges, one to each real node of its station, and the end_node only
\* incoming ones, so that an unbiased node is never an inner node of a
\* path; find_path searches from the start_node and to the end_node of a
\* transfer station and from or to the sole node of any other station.
C25_UnbiasedNodes ==
    /\ \A s \in DOMAIN stations :
          /\ EntryShape(s)
          /\ Len(stations[s]) > 1 => UnbiasedEdges(s)
    /\ (/\ out.cmd = "from"
        /\ UniquelyNamed(out.from) /\ Resolved(out.from) \notin disabled
        /\ UniquelyNamed(out.to) /\ Resolved(out.to) \notin disabled) =>
           /\ \A a \in SearchAnswers(Resolved(out.from), Resolved(out.to)) :
                  a.tag = "Some" =>
                      \A i \in 2..(Len(a.val) - 1) : ~IsUnbiased(a.val[i])
           /\ out.ret \in {IF a.tag = "Some" THEN TOk(interpret_path(a.val)) ELSE NoSuchPath :
                              a \in SearchAnswers(Resolved(out.from), Resolved(out.to))}

\* C25 witness: a route from the transfer station T to the transfer
\* station E was found after a rebuild that left both in place.
C25_Witness ==
    /\ out.cmd = "from"
    /\ disabled # {}
    /\ UniquelyNamed(out.from) /\ Resolved(out.from) = StT
    /\ UniquelyNamed(out.to) /\ Resolved(out.to) = StE
    /\ Len(stations[StT]) = 4
    /\ Len(stations[StE]) = 4
    /\ out.ret.tag = "TOk"
    /\ Len(out.ret.val) >= 2

\* every loaded station is either a key of stations or in disabled
Partitioned(st, dis) ==
    /\ DOMAIN st \cap dis = {}
    /\ DOMAIN st \cup dis = AllStations

\* no element occurs twice in the sequence v
NoRepeats(v) == \A i, j \in 1..Len(v) : v[i] = v[j] => i = j

\* C27: the keys of stations and disabled are disjoint and together they
\* are the set of all loaded station names, before and after every
\* command; so disambiguate_station(name) returns after a command what it
\* returned before it, and its suggestions never list a station twice.
C27_DisambiguateIsStable ==
    [][/\ Partitioned(stations, disabled)
       /\ Partitioned(stations', disabled')
       /\ \A name \in QueryNames :
             \A r \in {disambiguate_station(stations, disabled, name)} :
                /\ disambiguate_station(stations', disabled', name) = r
                /\ r.tag = "Suggestions" => NoRepeats(r.val)]_vars

\* C27 witness: one of two stations that share a name has been enabled
\* again while the other one is disabled.
C27_Witness ==
    /\ out.cmd = "enable"
    /\ out.ret = Successful
    /\ Resolved(out.station) = StAb
    /\ StAb \in DOMAIN stations
    /\ StAc \in disabled

----------------------------------------------------------------------------
(* Claims about the steps of a route (Spec) *)

\* the lines of the data files
RealLines == DOMAIN source_data

\* the line names step t carries
LinesNamed(t) ==
    IF t.step = "Switch" THEN {t.from, t.to} ELSE {t.line}

\* find_path has answered with a route
RouteAnswered == out.cmd = "from" /\ out.ret.tag = "TOk"

\* C28: no step of a route that find_path returns mentions start_node or
\* end_node: every Station step carries a line of the data files that the
\* station is on, and every Switch and Ensure step left after pruning names
\* lines of the data files only.
C28_NoUnbiasedLabelInRoute ==
    RouteAnswered =>
        \A i \in 1..Len(out.ret.val) :
            \A t \in {out.ret.val[i]} :
                /\ LinesNamed(t) \cap {START_NODE_LABEL, END_NODE_LABEL} = {}
                /\ LinesNamed(t) \subseteq RealLines
                /\ t.step = "Station" => t.line \in LinesOf(t.station)

\* C28 witness: a route from a station of one line to a transfer station
\* of another line, with a Switch step left in it.
C28_Witness ==
    /\ RouteAnswered
    /\ UniquelyNamed(out.from) /\ Resolved(out.from) = StAb
    /\ UniquelyNamed(out.to) /\ Resolved(out.to) = StE
    /\ Len(stations[StE]) > 1
    /\ \E i \in 1..Len(out.ret.val) : out.ret.val[i].step = "Switch"

\* C29: no step of a route that find_path returns names a station that is
\* in disabled at that time.
C29_NoDisabledStationInRoute ==
    RouteAnswered =>
        \A i \in 1..Len(out.ret.val) :
            out.ret.val[i].step = "Station" =>
                /\ out.ret.val[i].station \notin disabled
                /\ out.ret.val[i].station \in DOMAIN stations

\* C29 witness: with the transfer station T disabled, a route along the
\* orange line across the place of T was returned.
C29_Witness ==
    /\ RouteAnswered
    /\ StT \in disabled
    /\ UniquelyNamed(out.from) /\ Resolved(out.from) = StAc
    /\ UniquelyNamed(out.to) /\ Resolved(out.to) = StE
    /\ Len(out.ret.val) = 2

----------------------------------------------------------------------------
(* Claims about the run of find_shortest_path (DijkstraSpec) *)

\* the step pushes a State on the queue
Pushes == Len(dqueue') > Len(dqueue)

\* the State the step pushes
Pushed == dqueue'[Len(dqueue')]

\* there is an edge a -> b of cost 0
ZeroEdge(a, b) == \E i \in 1..Len(dedges[a + 1]) : dedges[a + 1][i] = Edge(b, 0)

\* C26: find_shortest_path terminates on every finite graph with costs that
\* are not negative, cycles and edges of cost 0 included: a step pushes at
\* most one State, and only for a node whose recorded cost it lowers
\* strictly, to the cost of the State; and every run reaches its return.
C26_SearchTerminates ==
    /\ [][Pushes =>
             /\ Len(dqueue') = Len(dqueue) + 1
             /\ dcost'[Pushed.position + 1].cost = Pushed.cost
             /\ dcost'[Pushed.position + 1].cost < dcost[Pushed.position + 1].cost]_vars
    /\ <>(dpc = "done")

\* C26 witness: the search has returned on a graph where the source lies
\* on a cycle of two edges of cost 0 and a third node was reached.
C26_Witness ==
    /\ dpc = "done"
    /\ \E b \in 0..(Len(dedges) - 1) :
          /\ b # dsource
          /\ ZeroEdge(dsource, b)
          /\ ZeroEdge(b, dsource)
    /\ \A n \in 1..Len(dcost) : dcost[n].path # <<>>
    /\ dret # None
    /\ dtarget # dsource

----------------------------------------------------------------------------
(* Claims about the sessions of the server (ServeSpec) *)

\* the thread of client c holds the guard of the Mutex
HoldsGuard(c) == sess[c].pc \in {"prompt", "running", "rebuilding", "written"}

\* find_path, enable_station or disable_station of client c is under way
InOperation(c) == sess[c].pc \in {"running", "rebuilding"}

\* stations and graph are what a whole rebuild makes of disabled
FullyRebuilt ==
    \E descending \in BOOLEAN :
        \A r \in {rebuild_graph(lineOrder, connOrder, disabled, descending)} :
            stations = r.stations /\ graph = r.graph

\* C21: the sessions share one network and the Mutex serialises them: no
\* find_path, enable or disable of one session is under way while an
\* operation of another session is, the session at work holds the locked
\* Mutex and no other session holds it, and no session sees stations and
\* graph partly rebuilt: an operation starts on a fully rebuilt network,
\* and the network is not fully rebuilt only inside the rebuild of the one
\* session at work.
C21_SessionsSerialised ==
    /\ \A c, e \in Clients : (HoldsGuard(c) /\ HoldsGuard(e)) => c = e
    /\ \A c \in Clients : HoldsGuard(c) => mutex
    /\ \A c, e \in Clients : (InOperation(c) /\ InOperation(e)) => c = e
    /\ \A c \in Clients : sess[c].pc \in {"prompt", "running", "written"} => FullyRebuilt
    /\ ~FullyRebuilt => \E c \in Clients : sess[c].pc = "rebuilding"

\* C21 witness: one session is in the middle of a rebuild while the thread
\* of another client, who has sent a command, waits for the Mutex.
C21_Witness ==
    \E c, e \in Clients :
        /\ c # e
        /\ sess[c].pc = "rebuilding"
        /\ ~FullyRebuilt
        /\ sess[e].pc = "spawned"
        /\ sess[e].sent

\* client c takes the lock in this step
Acquires(c) == ~HoldsGuard(c) /\ HoldsGuard(c)'

\* client c gives the lock up in this step
Releases(c) == HoldsGuard(c) /\ ~HoldsGuard(c)'

\* a command of client c is taken from its stream in this step
TakesCommand(c) == sess[c].pc = "prompt" /\ sess'[c].pc = "running"

\* C30: a session locks the network once, before its first prompt, and
\* keeps it locked until its input stream ends: the commands of a session
\* are applied one after the other with no command of another session in
\* between, and a command that a second connected client has sent is taken
\* up only after the session that holds the lock has ended.
C30_LockHeldForSession ==
    [][\A c \in Clients :
          /\ Acquires(c) =>
                /\ sess[c].pc = "spawned" /\ sess'[c].pc = "prompt"
                /\ ~mutex /\ mutex'
          /\ sess'[c].pc = "spawned" => sess[c].pc \in {"unconnected", "spawned"}
          /\ Releases(c) =>
                /\ sess[c].pc = "prompt" /\ ~sess[c].sent
                /\ sess'[c].pc = "ended"
          /\ (mutex /\ ~mutex') => \E e \in Clients : Releases(e)
          /\ TakesCommand(c) =>
                \A e \in Clients \ {c} : sess[e].pc \in {"unconnected", "spawned", "ended"}
          /\ HoldsGuard(c) =>
                \A e \in Clients \ {c} :
                    /\ sess[e].sent => sess'[e].sent
                    /\ sess'[e].pc \in {"unconnected", "spawned", "ended"}
                    /\ sess[e].pc = "spawned" => sess'[e].pc = "spawned"]_vars

\* C30 witness: the command of the second client is at work after the
\* session of the first one, which disabled a station, has ended.
C30_Witness ==
    \E c, e \in Clients :
        /\ c # e
        /\ sess[c].pc = "ended"
        /\ disabled # {}
        /\ sess[e].pc = "running"
        /\ sess[e].cmd.cmd = "from"

==============================================================================
